---- MODULE Spec2Model ----
(***************************************************************************)
(* Model of the IP address management core of peta (package ipam):         *)
(*   AllocationBitmap, the bit allocation store, and Range, the store of   *)
(*   one CIDR.                                                             *)
(* big.Int values are natural numbers; their bits, words and bytes are     *)
(* computed the way math/big lays them out.                                *)
(***************************************************************************)
EXTENDS Integers, Sequences, FiniteSets, TLC

\* ------------------------------------------------------------------ bounds
\* largest capacity given to NewAllocationMap
MaxCap == 3
\* largest offset handed to Allocate / Release / Has (the smallest is -1)
MaxOff == 3
\* width of a big.Word in the model (64 in the build)
WordBits == 2
\* longest byte string handed to Restore
MaxDataLen == 2

\* every bit width of the address arithmetic is the build's width over Scale
Scale == 8
\* largest network number of the subnets given to NewCIDRRange
MaxNetIdx == 1
\* how far beyond the start of a subnet the addresses handed to a Range reach
MaxProbe == 4

\* ------------------------------------------------------- input domains
Caps == 0..MaxCap
Offsets == -1..MaxOff
Tags == {"a", "b"}
ByteVals == {0, 130}
DataSet == UNION {[1..n -> ByteVals] : n \in 0..MaxDataLen}

\* ------------------------------------------------------- math/big
\* big.Int.Bit(i) for i >= 0 (it panics for i < 0: see the callers)
Bit(x, i) == (x \div (2 ^ i)) % 2

\* big.Int.SetBit(x, i, b)
SetBit(x, i, b) == IF Bit(x, i) = b THEN x
                   ELSE IF b = 1 THEN x + 2 ^ i ELSE x - 2 ^ i

RECURSIVE BytesLittleEndian(_)
\* Bytes() in the wrong byte order
BytesLittleEndian(x) ==
    IF x = 0 THEN << >> ELSE <<x % 256>> \o BytesLittleEndian(x \div 256)

RECURSIVE Bytes(_)
\* big.Int.Bytes(): big-endian, no leading zero byte
Bytes(x) == IF x = 0 THEN << >> ELSE Append(Bytes(x \div 256), x % 256)

RECURSIVE SetBytes(_)
\* big.Int.SetBytes(buf): buf read as a big-endian unsigned integer
SetBytes(buf) == IF buf = << >> THEN 0
                 ELSE SetBytes(SubSeq(buf, 1, Len(buf) - 1)) * 256 + buf[Len(buf)]

RECURSIVE Bits(_)
\* big.Int.Bits(): little-endian words, no leading zero word
Bits(x) == IF x = 0 THEN << >>
           ELSE <<x % (2 ^ WordBits)>> \o Bits(x \div (2 ^ WordBits))

RECURSIVE OnesCount(_)
\* bits.OnesCount64
OnesCount(w) == IF w = 0 THEN 0 ELSE (w % 2) + OnesCount(w \div 2)

RECURSIVE SumOnes(_, _)
SumOnes(words, i) == IF i > Len(words) THEN 0
                     ELSE OnesCount(words[i]) + SumOnes(words, i + 1)

\* countBits: the sum of the set bits of every word of n
countBits(n) == SumOnes(Bits(n), 1)

RECURSIVE WordOffsets(_, _, _)
\* ForEach, inner loop: the offsets reported for one word
WordOffsets(word, bit, wordIdx) ==
    IF word = 0 THEN << >>
    ELSE IF word % 2 = 1
         THEN <<wordIdx * WordBits + bit>> \o WordOffsets((word - 1) \div 2, bit + 1, wordIdx)
         ELSE WordOffsets(word \div 2, bit + 1, wordIdx)

RECURSIVE ForEachWords(_, _)
\* ForEach, outer loop over r.allocated.Bits()
ForEachWords(words, i) ==
    IF i > Len(words) THEN << >>
    ELSE WordOffsets(words[i], 0, i - 1) \o ForEachWords(words, i + 1)

\* ------------------------------------------------------- results of a call
RetOk(v) == [ok |-> TRUE, val |-> v, err |-> ""]
RetFalse == [ok |-> FALSE, val |-> 0, err |-> ""]
RetErr(e) == [ok |-> FALSE, val |-> 0, err |-> e]
\* a Go panic: the deferred Unlock runs, nothing was written yet
Panic(r) == [r |-> r, ret |-> RetErr("panic"), out |-> << >>]

\* ------------------------------------------------------- AllocationBitmap
\* NewAllocationMap(max, rangeSpec)
NewAllocationMap(m, spec) ==
    [max |-> m, rangeSpec |-> spec, count |-> 0, allocated |-> 0]

\* AllocateBit with a scan that stops at the end of the range instead of wrapping
AllocateBitNoWrap(allocated, m, cnt, rnd) ==
    IF cnt > m THEN [ok |-> FALSE, at |-> 0, panic |-> FALSE]
    ELSE IF m <= 0 THEN [ok |-> FALSE, at |-> 0, panic |-> TRUE]
    ELSE LET free == {i \in 0..(m - 1 - rnd) : Bit(allocated, rnd + i) = 0}
         IN IF free = {} THEN [ok |-> FALSE, at |-> 0, panic |-> FALSE]
            ELSE [ok |-> TRUE,
                  at |-> rnd + (CHOOSE i \in free : \A j \in free : i <= j),
                  panic |-> FALSE]

\* randomScanStrategy.AllocateBit; rnd is the value rand.IntN(max) returned
AllocateBit(allocated, m, cnt, rnd) ==
    IF cnt > m THEN [ok |-> FALSE, at |-> 0, panic |-> FALSE]
    ELSE IF m <= 0 THEN [ok |-> FALSE, at |-> 0, panic |-> TRUE]
    ELSE LET free == {i \in 0..(m - 1) : Bit(allocated, (rnd + i) % m) = 0}
         IN IF free = {} THEN [ok |-> FALSE, at |-> 0, panic |-> FALSE]
            ELSE [ok |-> TRUE,
                  at |-> (rnd + (CHOOSE i \in free : \A j \in free : i <= j)) % m,
                  panic |-> FALSE]

\* the values rand.IntN(max) can return; rand.IntN panics when max <= 0 and
\* the draw is then never used
RandIntN(m) == IF m <= 0 THEN {0} ELSE 0..(m - 1)

\* Allocate without the test of the bit
AllocateNoCheck(r, offset) ==
    IF offset < 0 THEN Panic(r)
    ELSE [r |-> [r EXCEPT !.allocated = SetBit(r.allocated, offset, 1),
                          !.count = r.count + 1],
          ret |-> RetOk(0), out |-> << >>]

\* AllocationBitmap.Allocate
Allocate(r, offset) ==
    IF offset < 0 THEN Panic(r)
    ELSE IF Bit(r.allocated, offset) = 1
         THEN [r |-> r, ret |-> RetFalse, out |-> << >>]
         ELSE [r |-> [r EXCEPT !.allocated = SetBit(r.allocated, offset, 1),
                               !.count = r.count + 1],
               ret |-> RetOk(0), out |-> << >>]

\* AllocationBitmap.AllocateNext
AllocateNext(r, rnd) ==
    LET res == AllocateBit(r.allocated, r.max, r.count, rnd)
    IN IF res.panic THEN Panic(r)
       ELSE IF ~res.ok THEN [r |-> r, ret |-> RetFalse, out |-> << >>]
       ELSE [r |-> [r EXCEPT !.count = r.count + 1,
                             !.allocated = SetBit(r.allocated, res.at, 1)],
             ret |-> RetOk(res.at), out |-> << >>]

\* Release that forgets count--
ReleaseNoCount(r, offset) ==
    IF offset < 0 THEN Panic(r)
    ELSE IF Bit(r.allocated, offset) = 0
         THEN [r |-> r, ret |-> RetOk(0), out |-> << >>]
         ELSE [r |-> [r EXCEPT !.allocated = SetBit(r.allocated, offset, 0)],
               ret |-> RetOk(0), out |-> << >>]

\* AllocationBitmap.Release
Release(r, offset) ==
    IF offset < 0 THEN Panic(r)
    ELSE IF Bit(r.allocated, offset) = 0
         THEN [r |-> r, ret |-> RetOk(0), out |-> << >>]
         ELSE [r |-> [r EXCEPT !.allocated = SetBit(r.allocated, offset, 0),
                               !.count = r.count - 1],
               ret |-> RetOk(0), out |-> << >>]

\* AllocationBitmap.ForEach: out is the sequence of values fn is called with
ForEach(r) == [r |-> r, ret |-> RetOk(0), out |-> ForEachWords(Bits(r.allocated), 1)]

\* AllocationBitmap.Has
Has(r, offset) ==
    IF offset < 0 THEN Panic(r)
    ELSE [r |-> r, ret |-> [ok |-> Bit(r.allocated, offset) = 1, val |-> 0, err |-> ""],
          out |-> << >>]

\* AllocationBitmap.Free
Free(r) == [r |-> r, ret |-> RetOk(r.max - r.count), out |-> << >>]

\* AllocationBitmap.Snapshot: the tag is r.rangeSpec, out the bytes
Snapshot(r) == [r |-> r, ret |-> RetOk(0), out |-> Bytes(r.allocated)]

\* Restore that compares the tags only after it has written the store
RestoreLateCheck(r, spec, data) ==
    LET a == SetBytes(data)
        w == [r EXCEPT !.allocated = a, !.count = countBits(a)]
    IN IF r.rangeSpec # spec
       THEN [r |-> w, ret |-> RetErr("the provided range does not match the current range"),
             out |-> << >>]
       ELSE [r |-> w, ret |-> RetOk(0), out |-> << >>]

\* AllocationBitmap.Restore
Restore(r, spec, data) ==
    IF r.rangeSpec # spec
    THEN [r |-> r, ret |-> RetErr("the provided range does not match the current range"),
          out |-> << >>]
    ELSE LET a == SetBytes(data)
         IN [r |-> [r EXCEPT !.allocated = a, !.count = countBits(a)],
             ret |-> RetOk(0), out |-> << >>]

\* ------------------------------------------------------------------ state
VARIABLES
    max,        \* AllocationBitmap.max
    rangeSpec,  \* AllocationBitmap.rangeSpec
    count,      \* AllocationBitmap.count
    allocated,  \* AllocationBitmap.allocated, as a natural number
    fresh,      \* the store built for the last snapshot round trip (else a new, empty one)
    op,         \* the method called last
    arg,        \* its arguments
    ret,        \* what it returned
    out,        \* the values it produced (ForEach calls of fn, Snapshot bytes)
    onlyNext,   \* TRUE while only AllocateNext was called since construction
    got,        \* offsets returned by AllocateNext while onlyNext
    pat,        \* progress of Allocate(o) Release(o) Allocate(o) Allocate(o)
    lock,       \* AllocationBitmap.lock: 0 when unlocked, else the goroutine holding it
    pc,         \* per goroutine: "idle" or its position inside a method
    call,       \* per goroutine: the method it is in and its arguments
    reg,        \* per goroutine: its local variables
    done,       \* the call that returned last, with the store before and after it
    held,       \* offsets reported allocated and not released or restored away since
    heldRel,    \* offsets reported allocated and not released since
    dup,        \* an offset of held was reported allocated again
    dupRel,     \* an offset of heldRel was reported allocated again
    net,        \* Range.net
    base,       \* Range.base
    rmax,       \* Range.max (Range.alloc is the store above)
    nl,         \* the wrapped netlink call in progress: its loop and its results
    krn,        \* the kernel as SetupBridge sees it: sysctl files, links, addresses
    fw,         \* the firewall: iptables nat chains and the nftables masquerade table
    run         \* the SetupBridge call in progress: its position and what it did

bmVars == <<max, rangeSpec, count, allocated>>
callVars == <<op, arg, ret, out>>
ghostVars == <<onlyNext, got, pat>>
seqVars == <<fresh, callVars, ghostVars>>
concVars == <<lock, pc, call, reg, done, held, heldRel, dup, dupRel>>
rangeVars == <<net, base, rmax>>
sysVars == <<nl, krn, fw, run>>
vars == <<bmVars, seqVars, concVars, rangeVars, sysVars>>

\* the receiver of a method call
Store == [max |-> max, rangeSpec |-> rangeSpec, count |-> count, allocated |-> allocated]

NoArg == [offset |-> 0, tag |-> "", data |-> << >>, ip |-> 0]
OffArg(o) == [offset |-> o, tag |-> "", data |-> << >>, ip |-> 0]

\* the observer of the sequence Allocate(o), Release(o), Allocate(o), Allocate(o):
\* st = 1 after a successful Allocate(o), 2 after the Release(o) that follows,
\* 3 after the Allocate(o) that follows, 4 after a further Allocate(o)
PatNext(name, o, res) ==
    IF name = "Allocate" /\ pat.st \in {2, 3} /\ o = pat.o THEN [st |-> pat.st + 1, o |-> o]
    ELSE IF name = "Release" /\ pat.st \in {1, 3} /\ o = pat.o /\ res.err = "" THEN [st |-> 2, o |-> o]
    ELSE IF name = "Allocate" /\ res.ok THEN [st |-> 1, o |-> o]
    ELSE [st |-> 0, o |-> 0]

\* one method call on the store: its effect, its record, the observers
Apply(name, a, res) ==
    /\ max' = res.r.max
    /\ fresh' = IF name = "RestoreFresh" THEN res.fresh
                ELSE NewAllocationMap(res.r.max, res.r.rangeSpec)
    /\ rangeSpec' = res.r.rangeSpec
    /\ count' = res.r.count
    /\ allocated' = res.r.allocated
    /\ op' = name
    /\ arg' = a
    /\ ret' = res.ret
    /\ out' = res.out
    /\ onlyNext' = (onlyNext /\ name = "AllocateNext")
    /\ got' = IF onlyNext /\ name = "AllocateNext"
              THEN (IF res.ret.ok THEN Append(got, res.ret.val) ELSE got)
              ELSE << >>
    /\ pat' = PatNext(name, a.offset, res.ret)
    /\ UNCHANGED <<concVars, rangeVars, sysVars>>

\* goroutines calling into one store
NProcs == 2
Procs == 1..NProcs

NoCall == [name |-> "none", offset |-> 0, tag |-> "", data |-> << >>, rnd |-> 0]
NoReg == [next |-> 0, n |-> 0, i |-> 0, seen |-> << >>, pre |-> NewAllocationMap(0, "")]
NoDone == [p |-> 0, call |-> NoCall, ret |-> RetOk(0), out |-> << >>,
           pre |-> NewAllocationMap(0, ""), post |-> NewAllocationMap(0, "")]

\* the store as NewAllocationMap(m, t) leaves it
InitStore(m, t) ==
    /\ max = m
    /\ rangeSpec = t
    /\ count = 0
    /\ allocated = 0

InitSeq ==
    /\ fresh = NewAllocationMap(max, rangeSpec)
    /\ op = "New"
    /\ arg = NoArg
    /\ ret = RetOk(0)
    /\ out = << >>
    /\ onlyNext = TRUE
    /\ got = << >>
    /\ pat = [st |-> 0, o |-> 0]

InitConc ==
    /\ lock = 0
    /\ pc = [p \in Procs |-> "idle"]
    /\ call = [p \in Procs |-> NoCall]
    /\ reg = [p \in Procs |-> NoReg]
    /\ done = NoDone
    /\ held = {}
    /\ heldRel = {}
    /\ dup = FALSE
    /\ dupRel = FALSE

\* no Range is built around the store
InitNoRange ==
    /\ net = [fam |-> "", ip |-> 0, ones |-> 0]
    /\ base = 0
    /\ rmax = 0

\* no netlink call, no SetupBridge call, an untouched kernel and firewall
NoNl == [fn |-> "", pc |-> "idle", attempt |-> 0, hist |-> << >>,
         err |-> "nil", val |-> 0, ret |-> [val |-> 0, err |-> "nil"], logged |-> FALSE]
NoKrn == [links |-> << >>]
NoFw == [n |-> 0]
NoRun == [pc |-> "idle"]

InitNoSys ==
    /\ nl = NoNl
    /\ krn = NoKrn
    /\ fw = NoFw
    /\ run = NoRun

Init ==
    /\ \E m \in Caps, t \in Tags : InitStore(m, t)
    /\ InitSeq
    /\ InitConc
    /\ InitNoRange
    /\ InitNoSys

CallAllocate ==
    \E o \in Offsets : Apply("Allocate", OffArg(o), Allocate(Store, o))

CallAllocateNext ==
    \E rnd \in RandIntN(max) :
        Apply("AllocateNext", NoArg, AllocateNext(Store, rnd))

CallRelease ==
    \E o \in Offsets : Apply("Release", OffArg(o), Release(Store, o))

CallForEach == Apply("ForEach", NoArg, ForEach(Store))

CallHas ==
    \E o \in Offsets : Apply("Has", OffArg(o), Has(Store, o))

CallFree == Apply("Free", NoArg, Free(Store))

CallSnapshot == Apply("Snapshot", NoArg, Snapshot(Store))

CallRestore ==
    \E t \in Tags, d \in DataSet :
        Apply("Restore", [offset |-> 0, tag |-> t, data |-> d, ip |-> 0], Restore(Store, t, d))
       

\* Snapshot of the store, then Restore of that tag and those bytes on a store
\* just built by NewAllocationMap with the same capacity and tag
RestoreFresh ==
    LET snap == Snapshot(Store)
        res == Restore(NewAllocationMap(max, rangeSpec), Store.rangeSpec, snap.out)
    IN Apply("RestoreFresh", [offset |-> 0, tag |-> Store.rangeSpec, data |-> snap.out, ip |-> 0],
             [r |-> Store, ret |-> res.ret, out |-> snap.out, fresh |-> res.r])

Next ==
    \/ CallAllocate
    \/ CallAllocateNext
    \/ CallRelease
    \/ CallForEach
    \/ CallHas
    \/ CallFree
    \/ CallSnapshot
    \/ CallRestore
    \/ RestoreFresh

Spec == Init /\ [][Next]_vars

\* ------------------------------------------------------- goroutines on one store
\* Every method begins with r.lock.Lock() and a deferred r.lock.Unlock(); its
\* body is taken one read or write of the store at a time.

\* the calls a goroutine can make
Calls ==
    {[name |-> n, offset |-> o, tag |-> "", data |-> << >>, rnd |-> 0] :
        n \in {"Allocate", "Release", "Has"}, o \in Offsets}
    \cup {[name |-> "AllocateNext", offset |-> 0, tag |-> "", data |-> << >>, rnd |-> x] :
        x \in RandIntN(max)}
    \cup {[name |-> n, offset |-> 0, tag |-> "", data |-> << >>, rnd |-> 0] :
        n \in {"ForEach", "Free", "Snapshot"}}
    \cup {[name |-> "Restore", offset |-> 0, tag |-> t, data |-> d, rnd |-> 0] :
        t \in Tags, d \in {x \in DataSet : Len(x) <= 1}}

\* the first position inside each method
Entry(n) ==
    CASE n = "Allocate" -> "A1"
      [] n = "AllocateNext" -> "N1"
      [] n = "Release" -> "R1"
      [] n = "ForEach" -> "F1"
      [] n = "Has" -> "H1"
      [] n = "Free" -> "FR1"
      [] n = "Snapshot" -> "S1"
      [] n = "Restore" -> "RS1"

\* Lock that does not wait for the mutex to be free
LockNoWait(p) ==
    /\ pc[p] = "idle"
    /\ \E c \in Calls :
          /\ call' = [call EXCEPT ![p] = c]
          /\ pc' = [pc EXCEPT ![p] = Entry(c.name)]
    /\ lock' = p
    /\ reg' = [reg EXCEPT ![p].pre = Store]
    /\ done' = NoDone
    /\ UNCHANGED <<bmVars, seqVars, rangeVars, sysVars, held, heldRel, dup, dupRel>>

\* r.lock.Lock() on entry of a method: blocks while another goroutine holds it
Lock(p) ==
    /\ pc[p] = "idle"
    /\ lock = 0
    /\ \E c \in Calls :
          /\ call' = [call EXCEPT ![p] = c]
          /\ pc' = [pc EXCEPT ![p] = Entry(c.name)]
    /\ lock' = p
    /\ reg' = [reg EXCEPT ![p].pre = Store]
    /\ done' = NoDone
    /\ UNCHANGED <<bmVars, seqVars, rangeVars, sysVars, held, heldRel, dup, dupRel>>

\* return (or panic) of a method: the deferred r.lock.Unlock() runs
Finish(p, r, o) ==
    /\ lock' = 0
    /\ pc' = [pc EXCEPT ![p] = "idle"]
    /\ call' = [call EXCEPT ![p] = NoCall]
    /\ reg' = [reg EXCEPT ![p] = NoReg]
    /\ done' = [p |-> p, call |-> call[p], ret |-> r, out |-> o, pre |-> reg[p].pre,
                post |-> [max |-> max', rangeSpec |-> rangeSpec', count |-> count',
                          allocated |-> allocated']]
    /\ UNCHANGED <<seqVars, rangeVars, sysVars>>

\* the goroutine moves on inside the method, still holding the lock
Goto(p, l) == pc' = [pc EXCEPT ![p] = l] /\ UNCHANGED <<lock, call, done, seqVars, rangeVars, sysVars>>

\* offset o is returned to a caller as newly allocated
Report(o) ==
    /\ held' = held \cup {o}
    /\ heldRel' = heldRel \cup {o}
    /\ dup' = (dup \/ o \in held)
    /\ dupRel' = (dupRel \/ o \in heldRel)

NoReport == UNCHANGED <<held, heldRel, dup, dupRel>>

\* AllocationBitmap.Allocate, step by step
StepAllocate(p) ==
    LET o == call[p].offset
    IN \/ /\ pc[p] = "A1"
          /\ UNCHANGED bmVars
          /\ NoReport
          /\ IF o < 0 THEN Finish(p, RetErr("panic"), << >>)
             ELSE IF Bit(allocated, o) = 1 THEN Finish(p, RetFalse, << >>)
             ELSE Goto(p, "A2") /\ UNCHANGED reg
       \/ /\ pc[p] = "A2"
          /\ allocated' = SetBit(allocated, o, 1)
          /\ UNCHANGED <<max, rangeSpec, count, reg>>
          /\ NoReport
          /\ Goto(p, "A3")
       \/ /\ pc[p] = "A3"
          /\ count' = count + 1
          /\ UNCHANGED <<max, rangeSpec, allocated>>
          /\ Report(o)
          /\ Finish(p, RetOk(0), << >>)

\* AllocationBitmap.AllocateNext, step by step
StepAllocateNext(p) ==
    \/ /\ pc[p] = "N1"
       /\ UNCHANGED bmVars
       /\ NoReport
       /\ LET res == AllocateBit(allocated, max, count, call[p].rnd)
          IN IF res.panic THEN Finish(p, RetErr("panic"), << >>)
             ELSE IF ~res.ok THEN Finish(p, RetFalse, << >>)
             ELSE Goto(p, "N2") /\ reg' = [reg EXCEPT ![p].next = res.at]
    \/ /\ pc[p] = "N2"
       /\ count' = count + 1
       /\ UNCHANGED <<max, rangeSpec, allocated, reg>>
       /\ NoReport
       /\ Goto(p, "N3")
    \/ /\ pc[p] = "N3"
       /\ allocated' = SetBit(allocated, reg[p].next, 1)
       /\ UNCHANGED <<max, rangeSpec, count>>
       /\ Report(reg[p].next)
       /\ Finish(p, RetOk(reg[p].next), << >>)

\* AllocationBitmap.Release, step by step
StepRelease(p) ==
    LET o == call[p].offset
    IN \/ /\ pc[p] = "R1"
          /\ UNCHANGED bmVars
          /\ NoReport
          /\ IF o < 0 THEN Finish(p, RetErr("panic"), << >>)
             ELSE IF Bit(allocated, o) = 0 THEN Finish(p, RetOk(0), << >>)
             ELSE Goto(p, "R2") /\ UNCHANGED reg
       \/ /\ pc[p] = "R2"
          /\ allocated' = SetBit(allocated, o, 0)
          /\ UNCHANGED <<max, rangeSpec, count, reg>>
          /\ held' = held \ {o}
          /\ heldRel' = heldRel \ {o}
          /\ UNCHANGED <<dup, dupRel>>
          /\ Goto(p, "R3")
       \/ /\ pc[p] = "R3"
          /\ count' = count - 1
          /\ UNCHANGED <<max, rangeSpec, allocated>>
          /\ NoReport
          /\ Finish(p, RetOk(0), << >>)

\* word i (from 1) of the array behind r.allocated, which words shares
WordAt(x, i) == (x \div (2 ^ (WordBits * (i - 1)))) % (2 ^ WordBits)

\* AllocationBitmap.ForEach, one word of the loop at a time
StepForEach(p) ==
    \/ /\ pc[p] = "F1"
       /\ UNCHANGED bmVars
       /\ NoReport
       /\ LET n == Len(Bits(allocated))
          IN IF n = 0 THEN Finish(p, RetOk(0), << >>)
             ELSE /\ Goto(p, "F2")
                  /\ reg' = [reg EXCEPT ![p].n = n, ![p].i = 1, ![p].seen = << >>]
    \/ /\ pc[p] = "F2"
       /\ UNCHANGED bmVars
       /\ NoReport
       /\ LET i == reg[p].i
              seen == reg[p].seen \o WordOffsets(WordAt(allocated, i), 0, i - 1)
          IN IF i = reg[p].n THEN Finish(p, RetOk(0), seen)
             ELSE /\ Goto(p, "F2")
                  /\ reg' = [reg EXCEPT ![p].i = i + 1, ![p].seen = seen]

\* AllocationBitmap.Has, Free and Snapshot: one read of the store each
StepRead(p) ==
    /\ pc[p] \in {"H1", "FR1", "S1"}
    /\ UNCHANGED bmVars
    /\ NoReport
    /\ LET res == CASE pc[p] = "H1" -> Has(Store, call[p].offset)
                    [] pc[p] = "FR1" -> Free(Store)
                    [] pc[p] = "S1" -> Snapshot(Store)
       IN Finish(p, res.ret, res.out)

\* AllocationBitmap.Restore, step by step
StepRestore(p) ==
    \/ /\ pc[p] = "RS1"
       /\ UNCHANGED bmVars
       /\ NoReport
       /\ IF rangeSpec # call[p].tag
          THEN Finish(p, RetErr("the provided range does not match the current range"), << >>)
          ELSE Goto(p, "RS2") /\ UNCHANGED reg
    \/ /\ pc[p] = "RS2"
       /\ allocated' = SetBytes(call[p].data)
       /\ UNCHANGED <<max, rangeSpec, count, reg>>
       /\ held' = {o \in held : Bit(allocated', o) = 1}
       /\ UNCHANGED <<heldRel, dup, dupRel>>
       /\ Goto(p, "RS3")
    \/ /\ pc[p] = "RS3"
       /\ count' = countBits(allocated)
       /\ UNCHANGED <<max, rangeSpec, allocated>>
       /\ NoReport
       /\ Finish(p, RetOk(0), << >>)

InitConcurrent ==
    /\ \E m \in 1..MaxCap : InitStore(m, "a")
    /\ InitSeq
    /\ InitConc
    /\ InitNoRange
    /\ InitNoSys

NextConcurrent ==
    \E p \in Procs :
        \/ Lock(p)
        \/ StepAllocate(p)
        \/ StepAllocateNext(p)
        \/ StepRelease(p)
        \/ StepForEach(p)
        \/ StepRead(p)
        \/ StepRestore(p)

SpecConcurrent == InitConcurrent /\ [][NextConcurrent]_vars

\* ------------------------------------------------------- Range over a CIDR
\* A net.IP is the integer of its 16-byte form (what bigForIP computes); the
\* addresses of ::ffff:0:0/96 are the IPv4 addresses (IP.To4() is not nil).
V4Bits == 32 \div Scale
V6Bits == 128 \div Scale
\* width of int64 and int
IntBits == 64 \div Scale
\* RangeSize: IPv6 ranges are capped at 1 << 16 addresses
V6CapBits == 16 \div Scale
\* ::ffff:0:0
V4Mapped == (2 ^ (16 \div Scale) - 1) * (2 ^ V4Bits)

IsV4(x) == x >= V4Mapped /\ x < V4Mapped + 2 ^ V4Bits
AddrBits(fam) == IF fam = "v4" THEN V4Bits ELSE V6Bits
HostBits(n) == AddrBits(n.fam) - n.ones

\* the *net.IPNet values net.ParseCIDR returns: the address is masked
Nets ==
    {n \in UNION {{[fam |-> f,
                    ip |-> (IF f = "v4" THEN V4Mapped ELSE 0) + k * (2 ^ (AddrBits(f) - o)),
                    ones |-> o] : k \in 0..MaxNetIdx, o \in 0..AddrBits(f)} :
                  f \in {"v4", "v6"}} :
        /\ n.ip < (IF n.fam = "v4" THEN V4Mapped + 2 ^ V4Bits ELSE 2 ^ V6Bits)
        /\ (n.ip \div (2 ^ HostBits(n))) * (2 ^ HostBits(n)) = n.ip
        /\ IsV4(n.ip) = (n.fam = "v4")}

\* IPNet.String(): address "/" prefix length
String(n) == ToString(n.ip) \o "/" \o ToString(n.ones)

\* IPMask.String(): the hex digits of the mask, 4 or 16 bytes of it
MaskString(n) == <<AddrBits(n.fam), n.ones>>

\* IPNet.Contains(ip)
Contains(n, x) ==
    /\ IsV4(x) = (n.fam = "v4")
    /\ x \div (2 ^ HostBits(n)) = n.ip \div (2 ^ HostBits(n))

\* big.Int.Int64(): the low 64 bits of |x| as an int64, negated if x < 0
Int64(x) ==
    LET a == IF x < 0 THEN -x ELSE x
        m == a % (2 ^ IntBits)
        v == IF m >= 2 ^ (IntBits - 1) THEN m - 2 ^ IntBits ELSE m
    IN IF x < 0 THEN -v ELSE v

\* bigForIP
bigForIP(x) == x

\* addIPOffset: the last 16 bytes of base + offset
addIPOffset(b, offset) == (b + offset) % (2 ^ V6Bits)

\* calculateIPOffset
calculateIPOffset(b, x) == Int64(bigForIP(x) - b)

\* GetIndexedIP(subnet, index)
GetIndexedIP(subnet, index) ==
    LET nip == addIPOffset(bigForIP(subnet.ip), index)
    IN IF Contains(subnet, nip) THEN [ip |-> nip, err |-> "nil"]
       ELSE [ip |-> 0, err |-> "subnet too small"]

\* RangeSize without the limit on IPv6 ranges
RangeSizeNoCap(subnet) ==
    LET bits == AddrBits(subnet.fam)
        ones == subnet.ones
    IN IF (bits = V4Bits /\ (bits - ones) >= V4Bits - 1)
          \/ (bits = V6Bits /\ (bits - ones) >= V6Bits - 1)
       THEN 0
       ELSE 2 ^ (bits - ones)

\* RangeSize
RangeSize(subnet) ==
    LET bits == AddrBits(subnet.fam)
        ones == subnet.ones
    IN IF (bits = V4Bits /\ (bits - ones) >= V4Bits - 1)
          \/ (bits = V6Bits /\ (bits - ones) >= V6Bits - 1)
       THEN 0
       ELSE IF bits = V6Bits /\ (bits - ones) >= V6CapBits
            THEN 2 ^ V6CapBits
            ELSE 2 ^ (bits - ones)

\* NewCIDRRange that leaves base at the network address
NewCIDRRangeKeepBase(cidr) ==
    LET size == RangeSize(cidr)
        b == bigForIP(cidr.ip)
    IN IF size > 2
       THEN [net |-> cidr, base |-> b, max |-> size - 2,
             alloc |-> NewAllocationMap(size - 2, String(cidr))]
       ELSE [net |-> cidr, base |-> b, max |-> size,
             alloc |-> NewAllocationMap(size, String(cidr))]

\* NewCIDRRange
NewCIDRRange(cidr) ==
    LET size == RangeSize(cidr)
        b == bigForIP(cidr.ip)
    IN IF size > 2
       THEN [net |-> cidr, base |-> b + 1, max |-> size - 2,
             alloc |-> NewAllocationMap(size - 2, String(cidr))]
       ELSE [net |-> cidr, base |-> b, max |-> size,
             alloc |-> NewAllocationMap(size, String(cidr))]

\* Range.contains
contains(r, x) ==
    IF ~Contains(r.net, x) THEN [ok |-> FALSE, offset |-> 0]
    ELSE LET offset == calculateIPOffset(r.base, x)
         IN IF offset < 0 \/ offset >= r.max THEN [ok |-> FALSE, offset |-> 0]
            ELSE [ok |-> TRUE, offset |-> offset]

\* Range.Allocate
RangeAllocate(r, x) ==
    LET c == contains(r, x)
    IN IF ~c.ok THEN [r |-> r, ret |-> RetErr("ErrNotInRange"), out |-> << >>]
       ELSE LET a == Allocate(r.alloc, c.offset)
            IN IF a.ret.err = "panic" THEN [r |-> r, ret |-> a.ret, out |-> << >>]
               ELSE IF ~a.ret.ok
                    THEN [r |-> [r EXCEPT !.alloc = a.r], ret |-> RetErr("ErrAllocated"),
                          out |-> << >>]
                    ELSE [r |-> [r EXCEPT !.alloc = a.r], ret |-> RetOk(0), out |-> << >>]

\* Range.AllocateNext: out holds the address returned
RangeAllocateNext(r, rnd) ==
    LET a == AllocateNext(r.alloc, rnd)
    IN IF a.ret.err = "panic" THEN [r |-> r, ret |-> a.ret, out |-> << >>]
       ELSE IF ~a.ret.ok
            THEN [r |-> [r EXCEPT !.alloc = a.r], ret |-> RetErr("ErrFull"), out |-> << >>]
            ELSE [r |-> [r EXCEPT !.alloc = a.r], ret |-> RetOk(a.ret.val),
                  out |-> <<addIPOffset(r.base, a.ret.val)>>]

\* Range.Release
RangeRelease(r, x) ==
    LET c == contains(r, x)
    IN IF c.ok
       THEN LET a == Release(r.alloc, c.offset)
            IN [r |-> [r EXCEPT !.alloc = a.r], ret |-> a.ret, out |-> << >>]
       ELSE [r |-> r, ret |-> RetOk(0), out |-> << >>]

\* Range.Has
RangeHas(r, x) ==
    LET c == contains(r, x)
    IN IF ~c.ok THEN [r |-> r, ret |-> RetFalse, out |-> << >>]
       ELSE [r |-> r, ret |-> Has(r.alloc, c.offset).ret, out |-> << >>]

\* Range.ForEach: out is the sequence of values fn is called with, NilIP
\* where GetIndexedIP returned its error and a nil address
NilIP == -1
RangeForEach(r) ==
    LET offsets == ForEach(r.alloc).out
    IN [r |-> r, ret |-> RetOk(0),
        out |-> [i \in 1..Len(offsets) |->
                    LET nip == GetIndexedIP(r.net, offsets[i] + 1)
                    IN IF nip.err = "nil" THEN nip.ip ELSE NilIP]]

\* Range.Free
RangeFree(r) == [r |-> r, ret |-> Free(r.alloc).ret, out |-> << >>]

\* Range.Used
RangeUsed(r) == [r |-> r, ret |-> RetOk(r.max - Free(r.alloc).ret.val), out |-> << >>]

\* Range.Restore that compares the addresses and not the masks
RangeRestoreIPOnly(r, n, data) ==
    IF n.ip # r.net.ip
    THEN [r |-> r, ret |-> RetErr("ErrMismatchedNetwork"), out |-> << >>]
    ELSE LET a == Restore(r.alloc, String(n), data)
         IN IF ~a.ret.ok
            THEN [r |-> r, ret |-> RetErr("restoring snapshot encountered"), out |-> << >>]
            ELSE [r |-> [r EXCEPT !.alloc = a.r], ret |-> RetOk(0), out |-> << >>]

\* Range.Restore
RangeRestore(r, n, data) ==
    IF n.ip # r.net.ip \/ MaskString(n) # MaskString(r.net)
    THEN [r |-> r, ret |-> RetErr("ErrMismatchedNetwork"), out |-> << >>]
    ELSE LET a == Restore(r.alloc, String(n), data)
         IN IF ~a.ret.ok
            THEN [r |-> r, ret |-> RetErr("restoring snapshot encountered"), out |-> << >>]
            ELSE [r |-> [r EXCEPT !.alloc = a.r], ret |-> RetOk(0), out |-> << >>]

\* the Range made of the state
RangeObj == [net |-> net, base |-> base, max |-> rmax, alloc |-> Store]

\* the addresses handed to the Range: around the start and the end of the
\* subnet, one int64 wrap beyond the start, and one of the other family
IPArgs ==
    {x \in {net.ip + j : j \in (-1..(MaxProbe + 1))
                            \cup {2 ^ HostBits(net) - 2, 2 ^ HostBits(net) - 1,
                                  2 ^ HostBits(net)}
                            \cup {2 ^ IntBits + j : j \in 0..(MaxProbe + 1)}} :
        x >= 0 /\ x < 2 ^ V6Bits}
    \cup {IF net.fam = "v4" THEN net.ip - V4Mapped ELSE V4Mapped + 1}

\* the subnets handed to Range.Restore: those of the same address or the same
\* prefix length, and the IPv4 subnet written as an IPv4-mapped IPv6 one
\* (IP.Equal holds, the mask is 16 bytes long)
RestoreNets ==
    {n \in Nets : n.ip = net.ip \/ n.ones = net.ones}
    \cup (IF net.fam = "v4"
          THEN {[fam |-> "v6", ip |-> net.ip, ones |-> net.ones + (V6Bits - V4Bits)]}
          ELSE {})

\* the bytes handed to Range.Restore
RestoreData == {x \in DataSet : Len(x) <= 1}

\* the argument record of Range.Restore(n, d)
RestoreArg(n, d) == [offset |-> 0, tag |-> String(n), data |-> d, ip |-> n.ip]

\* one method call on the Range
ApplyRange(name, a, res) ==
    /\ net' = res.r.net
    /\ base' = res.r.base
    /\ rmax' = res.r.max
    /\ max' = res.r.alloc.max
    /\ rangeSpec' = res.r.alloc.rangeSpec
    /\ count' = res.r.alloc.count
    /\ allocated' = res.r.alloc.allocated
    /\ op' = name
    /\ arg' = a
    /\ ret' = res.ret
    /\ out' = res.out
    /\ UNCHANGED <<fresh, ghostVars, concVars, sysVars>>

IPArg(x) == [offset |-> 0, tag |-> "", data |-> << >>, ip |-> x]

InitRange ==
    /\ \E cidr \in Nets :
          LET r == NewCIDRRange(cidr)
          IN /\ net = r.net
             /\ base = r.base
             /\ rmax = r.max
             /\ InitStore(r.alloc.max, r.alloc.rangeSpec)
    /\ InitSeq
    /\ InitConc
    /\ InitNoSys

CallRangeAllocate ==
    \E x \in IPArgs : ApplyRange("Range.Allocate", IPArg(x), RangeAllocate(RangeObj, x))

CallRangeAllocateNext ==
    \E rnd \in RandIntN(max) :
        ApplyRange("Range.AllocateNext", NoArg, RangeAllocateNext(RangeObj, rnd))

CallRangeRelease ==
    \E x \in IPArgs : ApplyRange("Range.Release", IPArg(x), RangeRelease(RangeObj, x))

CallRangeHas ==
    \E x \in IPArgs : ApplyRange("Range.Has", IPArg(x), RangeHas(RangeObj, x))

CallRangeRestore ==
    \E n \in RestoreNets, d \in RestoreData :
        ApplyRange("Range.Restore", RestoreArg(n, d), RangeRestore(RangeObj, n, d))

CallRangeForEach == ApplyRange("Range.ForEach", NoArg, RangeForEach(RangeObj))

CallRangeFree == ApplyRange("Range.Free", NoArg, RangeFree(RangeObj))

CallRangeUsed == ApplyRange("Range.Used", NoArg, RangeUsed(RangeObj))

NextRange ==
    \/ CallRangeAllocate
    \/ CallRangeAllocateNext
    \/ CallRangeRelease
    \/ CallRangeHas
    \/ CallRangeRestore
    \/ CallRangeForEach
    \/ CallRangeFree
    \/ CallRangeUsed

SpecRange == InitRange /\ [][NextRange]_vars

\* ------------------------------------------------------- netlinksafe
\* Arbitrary limit on max attempts at netlink calls
maxAttempts == 5

\* the wrappers built on retryOnIntr
WrappedCalls ==
    {"Handle.LinkByName", "LinkList", "Handle.LinkList", "Handle.RouteListFiltered",
     "Handle.RouteList", "Handle.AddrList", "Handle.BridgeVlanList"}

\* what one call of the underlying netlink function can report: success, the
\* dump interruption bare or wrapped in another error, any other error
NlErrs == {"nil", "ErrDumpInterrupted", "wrapped(ErrDumpInterrupted)", "other"}
\* and the result it hands back with it: nothing, or a (possibly partial) dump
NlVals == {0, 1}

\* errors.Is(err, netlink.ErrDumpInterrupted)
IsDumpInterrupted(err) == err \in {"ErrDumpInterrupted", "wrapped(ErrDumpInterrupted)"}

\* a loop test that goes on after any error
retryAgainOnAnyError(err) == err # "nil"

\* retryOnIntr, the test inside the loop: the loop goes on after this error
retryAgain(err) == IsDumpInterrupted(err)

\* a discard that keeps every error
discardNothing(err) == err

\* discardErrDumpInterrupted
discardErrDumpInterrupted(err) == IF IsDumpInterrupted(err) THEN "nil" ELSE err

nonNlVars == <<bmVars, seqVars, concVars, rangeVars, krn, fw, run>>

\* a wrapper is entered: var link, var err, and retryOnIntr starts its loop
NlCall ==
    /\ nl.pc \in {"idle", "done"}
    /\ \E f \in WrappedCalls : nl' = [NoNl EXCEPT !.fn = f, !.pc = "loop"]
    /\ UNCHANGED nonNlVars

\* one pass of the loop of retryOnIntr: f() calls the netlink function, which
\* answers e and v; when the loop ends the wrapper returns
NlAttempt ==
    /\ nl.pc = "loop"
    /\ nl.attempt < maxAttempts
    /\ \E e \in NlErrs, v \in NlVals :
          LET seen == [nl EXCEPT !.hist = Append(nl.hist, [err |-> e, val |-> v]),
                                 !.err = e, !.val = v]
              back == [val |-> v, err |-> discardErrDumpInterrupted(e)]
          IN nl' = IF ~retryAgain(e)
                   THEN [seen EXCEPT !.pc = "done", !.ret = back]
                   ELSE IF nl.attempt + 1 < maxAttempts
                        THEN [seen EXCEPT !.attempt = nl.attempt + 1]
                        ELSE [seen EXCEPT !.attempt = nl.attempt + 1, !.pc = "done",
                                          !.ret = back, !.logged = TRUE]
    /\ UNCHANGED nonNlVars

\* no store and no Range is in use
InitNoIpam ==
    /\ InitStore(0, "a")
    /\ InitSeq
    /\ InitConc
    /\ InitNoRange

InitNetlink ==
    /\ InitNoIpam
    /\ InitNoSys

NextNetlink ==
    \/ NlCall
    \/ NlAttempt

SpecNetlink == InitNetlink /\ [][NextNetlink]_vars

\* ------------------------------------------------------- masquerade: names
\* MustFormatHashWithPrefix(length, prefix, toHash): the hex digits of the
\* sha512 of toHash after the prefix, cut to length characters. Digests cut
\* this way are taken to differ whenever their inputs differ, so a hash is
\* written as the string it was computed from
MustFormatHashWithPrefix(length, prefix, toHash) ==
    prefix \o "sha512:" \o ToString(length) \o "(" \o toHash \o ")"

\* FormatChainName(name, id): the name and the id are joined before hashing
FormatChainName(name, id) == MustFormatHashWithPrefix(28, "PETA-", name \o id)

\* FormatComment(name, id): fmt.Sprintf("name %q id: %q", name, id)
FormatComment(name, id) == "name \"" \o name \o "\" id: \"" \o id \o "\""

\* hashForNetwork(network)
hashForNetwork(network) == MustFormatHashWithPrefix(16, "", network)

\* hashForInstance(network, ifName, id)
hashForInstance(network, ifName, id) ==
    hashForNetwork(network) \o "-" \o MustFormatHashWithPrefix(16, "", ifName \o ":" \o id)

\* commentForInstance: the hash, then a readable tail (the hash is shorter
\* than knftables.CommentLengthMax, so cutting the comment keeps it whole)
commentForInstance(network, ifName, id) ==
    [hash |-> hashForInstance(network, ifName, id), text |-> <<network, ifName, id>>]

\* strings.HasPrefix(*rule.Comment, commentPrefix) for a prefix that is a hash
HasPrefix(comment, commentPrefix) == comment.hash = commentPrefix

\* the (network, ifName, id) triples rules are installed for: two that differ
\* in the interface only, two whose network and id differ and join to the
\* same string
Identities ==
    {[network |-> "n", ifName |-> "eth0", id |-> "1"],
     [network |-> "n", ifName |-> "eth1", id |-> "1"],
     [network |-> "n", ifName |-> "eth0", id |-> "11"],
     [network |-> "n1", ifName |-> "eth0", id |-> "1"]}

\* the *net.IPNet values handed to the masquerade code: an address and a mask
IPNet(x, o) == [fam |-> IF IsV4(x) THEN "v4" ELSE "v6", ip |-> x, ones |-> o]
\* IPNet.IP.Mask(IPNet.Mask): the network address
MaskedIP(n) == (n.ip \div (2 ^ HostBits(n))) * (2 ^ HostBits(n))
\* net.IP.String() and net.IPNet.String(): the address, and the address as it
\* is (not masked) with the prefix length
IPString(n) == <<n.fam, n.ip>>
NetString(n) == <<n.fam, n.ip, n.ones>>

\* two addresses of one IPv4 subnet, a host-only IPv4 one, an IPv6 one
MasqA == IPNet(V4Mapped + 5, V4Bits - 2)
MasqB == IPNet(V4Mapped + 6, V4Bits - 2)
MasqHost == IPNet(V4Mapped + 9, V4Bits)
MasqSix == IPNet(5, V6Bits - 2)
\* the CIDR lists of a call
MasqLists == {<<MasqA>>, <<MasqA, MasqB>>, <<MasqHost, MasqSix>>}

\* ------------------------------------------------------- masquerade: iptables
\* The nat table of one protocol is a function from the names of its chains
\* to the sequence of their rules. An address of a rule is kept the way the
\* kernel keeps it: masked, a bare address being a host-only subnet.
IptAddr(txt) ==
    IF Len(txt) = 2
    THEN [fam |-> txt[1], ip |-> txt[2], ones |-> AddrBits(txt[1])]
    ELSE [fam |-> txt[1], ip |-> MaskedIP([fam |-> txt[1], ip |-> txt[2], ones |-> txt[3]]),
          ones |-> txt[3]]

\* the rulespec "[!] -s|-d addr -j target -m comment --comment comment"
IptRule(neg, dir, addr, target, comment) ==
    [neg |-> neg, dir |-> dir, addr |-> addr, j |-> target, comment |-> comment]

BuiltinTargets == {"ACCEPT", "MASQUERADE"}
EmptyNat == [c \in {"POSTROUTING"} |-> << >>]
IptOk(t) == [t |-> t, err |-> "nil"]
IptErr(t, e) == [t |-> t, err |-> e]

\* the rules of a sequence without the first occurrence of r
RECURSIVE RemoveFirst(_, _)
RemoveFirst(q, r) ==
    IF q = << >> THEN << >>
    ELSE IF Head(q) = r THEN Tail(q) ELSE <<Head(q)>> \o RemoveFirst(Tail(q), r)

\* r is one of the rules of the sequence q
Member(q, r) == \E i \in 1..Len(q) : q[i] = r

\* a rule of some chain jumps to chain c
Referenced(nat, c) == \E d \in DOMAIN nat : \E i \in 1..Len(nat[d]) : nat[d][i].j = c

\* iptables.NewChain: -N
IptNewChain(nat, c) ==
    IF c \in DOMAIN nat THEN IptErr(nat, "other")
    ELSE IptOk([d \in DOMAIN nat \cup {c} |-> IF d = c THEN << >> ELSE nat[d]])

\* iptables.AppendUnique: -C, and -A unless the rule is there
IptAppendUnique(nat, c, r) ==
    IF c \notin DOMAIN nat \/ (r.j \notin BuiltinTargets /\ r.j \notin DOMAIN nat)
    THEN IptErr(nat, "other")
    ELSE IF Member(nat[c], r) THEN IptOk(nat)
    ELSE IptOk([nat EXCEPT ![c] = Append(nat[c], r)])

\* iptables.Delete: -D. A jump to a chain that does not exist is refused with
\* exit status 1 and "No chain/target/match by that name." or with exit
\* status 2, by the iptables binary in use: noTarget is "notexist" or "other"
IptDelete(nat, c, r, noTarget) ==
    IF r.j \notin BuiltinTargets /\ r.j \notin DOMAIN nat THEN IptErr(nat, noTarget)
    ELSE IF c \notin DOMAIN nat \/ ~Member(nat[c], r) THEN IptErr(nat, "notexist")
    ELSE IptOk([nat EXCEPT ![c] = RemoveFirst(nat[c], r)])

\* iptables.ClearChain: -N, and -F if the chain is there already
IptClearChain(nat, c) ==
    IF c \in DOMAIN nat THEN IptOk([nat EXCEPT ![c] = << >>])
    ELSE IptNewChain(nat, c)

\* iptables.DeleteChain: -X
IptDeleteChain(nat, c) ==
    IF c \notin DOMAIN nat THEN IptErr(nat, "notexist")
    ELSE IF nat[c] # << >> \/ Referenced(nat, c) THEN IptErr(nat, "other")
    ELSE IptOk([d \in DOMAIN nat \ {c} |-> nat[d]])

\* isNotExist(err)
isNotExist(err) == err = "notexist"

\* the protocol of ipn: ipn.IP.To4() == nil selects ip6tables
Proto(ipn) == ipn.fam
\* "224.0.0.0/4" and "ff00::/8", which are no address of the model
multicastNet(p) == [fam |-> p, ip |-> -1, ones |-> 0]

\* setupIPMasq(ipn, chain, comment) on the nat table of ipn's protocol
setupIPMasq(nat, ipn, chain, comment) ==
    LET s1 == IF chain \in DOMAIN nat THEN IptOk(nat) ELSE IptNewChain(nat, chain)
        s2 == IptAppendUnique(s1.t, chain,
                  IptRule(FALSE, "-d", IptAddr(NetString(ipn)), "ACCEPT", comment))
        s3 == IptAppendUnique(s2.t, chain,
                  IptRule(TRUE, "-d", multicastNet(Proto(ipn)), "MASQUERADE", comment))
        s4 == IptAppendUnique(s3.t, "POSTROUTING",
                  IptRule(FALSE, "-s", IptAddr(NetString(ipn)), chain, comment))
    IN IF s1.err # "nil" THEN s1
       ELSE IF s2.err # "nil" THEN s2
       ELSE IF s3.err # "nil" THEN s3
       ELSE s4

\* TeardownIPMasq(ipn, chain, comment)
TeardownIPMasq(nat, ipn, chain, comment, noTarget) ==
    LET d1 == IptDelete(nat, "POSTROUTING",
                  IptRule(FALSE, "-s", IptAddr(IPString(ipn)), chain, comment), noTarget)
        d2 == IptDelete(d1.t, "POSTROUTING",
                  IptRule(FALSE, "-s", IptAddr(NetString(ipn)), chain, comment), noTarget)
        d3 == IptClearChain(d2.t, chain)
        d4 == IptDeleteChain(d3.t, chain)
    IN IF d1.err # "nil" /\ ~isNotExist(d1.err) THEN d1
       ELSE IF d2.err # "nil" /\ ~isNotExist(d2.err) THEN d2
       ELSE IF d3.err # "nil" /\ ~isNotExist(d3.err) THEN d3
       ELSE IF d4.err # "nil" /\ ~isNotExist(d4.err) THEN d4
       ELSE IptOk(d4.t)

RECURSIVE setupIPMasqIPTablesFrom(_, _, _, _, _)
\* setupIPMasqIPTables, the loop from entry i of ipNs: it stops at the first
\* error. ipt holds the nat table of each protocol
setupIPMasqIPTablesFrom(ipt, ipNs, i, chain, comment) ==
    IF i > Len(ipNs) THEN [t |-> ipt, err |-> "nil"]
    ELSE LET p == Proto(ipNs[i])
             s == setupIPMasq(ipt[p], ipNs[i], chain, comment)
         IN IF s.err # "nil" THEN [t |-> [ipt EXCEPT ![p] = s.t], err |-> s.err]
            ELSE setupIPMasqIPTablesFrom([ipt EXCEPT ![p] = s.t], ipNs, i + 1, chain, comment)

\* setupIPMasqIPTables(ipNs, network, _, id): ifName is ignored
setupIPMasqIPTables(ipt, ipNs, network, ifName, id) ==
    setupIPMasqIPTablesFrom(ipt, ipNs, 1, FormatChainName(network, id),
                            FormatComment(network, id))

RECURSIVE teardownIPMasqIPTablesFrom(_, _, _, _, _, _, _)
\* teardownIPMasqIPTables, the loop from entry i of ipNs: it goes on after an
\* error and keeps the errors in errs
teardownIPMasqIPTablesFrom(ipt, ipNs, i, chain, comment, noTarget, errs) ==
    IF i > Len(ipNs) THEN [t |-> ipt, err |-> IF errs = << >> THEN "nil" ELSE "other", errs |-> errs]
    ELSE LET p == Proto(ipNs[i])
             d == TeardownIPMasq(ipt[p], ipNs[i], chain, comment, noTarget)
         IN teardownIPMasqIPTablesFrom([ipt EXCEPT ![p] = d.t], ipNs, i + 1, chain, comment,
                noTarget, IF d.err # "nil" THEN Append(errs, d.err) ELSE errs)

\* teardownIPMasqIPTables(ipNs, network, _, id): ifName is ignored
teardownIPMasqIPTables(ipt, ipNs, network, ifName, id, noTarget) ==
    teardownIPMasqIPTablesFrom(ipt, ipNs, 1, FormatChainName(network, id),
                               FormatComment(network, id), noTarget, << >>)

\* ------------------------------------------------------- masquerade: nftables
\* The table cni_plugins_masquerade: whether it exists, the rules of its two
\* chains in order, and the handle the kernel gives the next rule. A chain
\* exists from the first transaction on.
ipMasqChainName == "masq_checks"
EmptyNft == [table |-> FALSE, masq |-> << >>, post |-> << >>, next |-> 1]

\* the three rules every setup puts into the flushed postrouting chain
PostroutingRules == <<"ip daddr == 224.0.0.0/4  return", "ip6 daddr == ff00::/8  return",
                      "goto masq_checks">>

\* a listing that takes every rule of the chain, whatever its comment
findRulesOfAll(nft, commentPrefix) ==
    IF ~nft.table THEN << >> ELSE nft.masq

\* findRules(nft, commentPrefix): the rules of masq_checks whose comment
\* starts with the prefix, nil if the chain does not exist
findRules(nft, commentPrefix) ==
    IF ~nft.table THEN << >>
    ELSE SelectSeq(nft.masq, LAMBDA r : HasPrefix(r.comment, commentPrefix))

\* tx.Delete(rule) for every rule of dead: the rules leave by their handles
DeleteRules(q, dead) ==
    SelectSeq(q, LAMBDA r : \A i \in 1..Len(dead) : dead[i].h # r.h)

\* every handle of dead is the handle of a rule of q
AllPresent(q, dead) ==
    \A i \in 1..Len(dead) : \E j \in 1..Len(q) : q[j].h = dead[i].h

\* the rule added for ipn: ip|ip6 saddr == ipn.IP  ip|ip6 daddr != dstNet
\* masquerade, with the comment of the instance
MasqRule(ipn, comment, h) ==
    [h |-> h, ip |-> IF ipn.fam = "v4" THEN "ip" ELSE "ip6", saddr |-> ipn.ip,
     dstNet |-> <<MaskedIP(ipn), ipn.ones>>, comment |-> comment]

\* the transaction of setupIPMasqNFTablesWithInterface, run on nft: a delete
\* of a rule that is gone fails the whole transaction, which changes nothing
RunSetup(nft, staleRules, ipNs, comment) ==
    IF ~AllPresent(nft.masq, staleRules) THEN [t |-> nft, err |-> "other"]
    ELSE [t |-> [table |-> TRUE,
                 post |-> PostroutingRules,
                 masq |-> DeleteRules(nft.masq, staleRules)
                          \o [i \in 1..Len(ipNs) |-> MasqRule(ipNs[i], comment, nft.next + i - 1)],
                 next |-> nft.next + Len(ipNs)],
          err |-> "nil"]

\* a setup that leaves the stale rules where they are
setupIPMasqNFTablesKeepStale(nft, ipNs, network, ifName, id) ==
    RunSetup(nft, << >>, ipNs, commentForInstance(network, ifName, id))

\* setupIPMasqNFTablesWithInterface(nft, ipNs, network, ifName, id)
setupIPMasqNFTablesWithInterface(nft, ipNs, network, ifName, id) ==
    RunSetup(nft, findRules(nft, hashForInstance(network, ifName, id)), ipNs,
             commentForInstance(network, ifName, id))

\* the transaction of teardownIPMasqNFTablesWithInterface
RunTeardown(nft, rules) ==
    IF ~AllPresent(nft.masq, rules) THEN [t |-> nft, err |-> "other"]
    ELSE [t |-> [nft EXCEPT !.masq = DeleteRules(nft.masq, rules)], err |-> "nil"]

\* teardownIPMasqNFTablesWithInterface(nft, _, network, ifName, id)
teardownIPMasqNFTablesWithInterface(nft, ipNs, network, ifName, id) ==
    LET rules == findRules(nft, hashForInstance(network, ifName, id))
    IN IF Len(rules) = 0 THEN [t |-> nft, err |-> "nil"]
       ELSE RunTeardown(nft, rules)

\* ------------------------------------------------------- masquerade: calls
\* most masquerade calls in one behaviour
MaxMasqCalls == 3

Backends == {"iptables", "nftables"}
NoMasqCall == [op |-> "", backend |-> "", ident |-> "", ipNs |-> << >>, err |-> "nil"]
\* the firewall nobody has touched; owned holds, per backend and identity, the
\* CIDR list of its last setup, empty since its last teardown
InitFw ==
    [ipt |-> [p \in {"v4", "v6"} |-> EmptyNat],
     nft |-> EmptyNft,
     owned |-> [k \in Backends |-> [a \in Identities |-> << >>]],
     last |-> NoMasqCall,
     n |-> 0]

nonFwVars == <<bmVars, seqVars, concVars, rangeVars, nl, krn, run>>

\* one masquerade call on the firewall: res is what it left and returned
ApplyMasq(name, k, a, ipNs, res, owns) ==
    /\ fw.n < MaxMasqCalls
    /\ fw' = [ipt |-> IF k = "iptables" THEN res.t ELSE fw.ipt,
              nft |-> IF k = "nftables" THEN res.t ELSE fw.nft,
              owned |-> [fw.owned EXCEPT ![k][a] = owns],
              last |-> [op |-> name, backend |-> k, ident |-> a, ipNs |-> ipNs,
                        err |-> res.err],
              n |-> fw.n + 1]
    /\ UNCHANGED nonFwVars

\* SetupIPMasqForNetworks(&"iptables", ipNs, network, ifName, id)
CallSetupIPTables ==
    \E a \in Identities, ipNs \in MasqLists :
        LET res == setupIPMasqIPTables(fw.ipt, ipNs, a.network, a.ifName, a.id)
        IN ApplyMasq("setup", "iptables", a, ipNs, res,
                     IF res.err = "nil" THEN ipNs ELSE fw.owned["iptables"][a])

\* SetupIPMasqForNetworks(&"nftables", ipNs, network, ifName, id)
CallSetupNFTables ==
    \E a \in Identities, ipNs \in MasqLists :
        LET res == setupIPMasqNFTablesWithInterface(fw.nft, ipNs, a.network, a.ifName, a.id)
        IN ApplyMasq("setup", "nftables", a, ipNs, res,
                     IF res.err = "nil" THEN ipNs ELSE fw.owned["nftables"][a])

\* teardownIPMasqIPTables(ipNs, network, ifName, id)
CallTeardownIPTables ==
    \E a \in Identities, ipNs \in MasqLists, noTarget \in {"notexist", "other"} :
        LET res == teardownIPMasqIPTables(fw.ipt, ipNs, a.network, a.ifName, a.id, noTarget)
        IN ApplyMasq("teardown", "iptables", a, ipNs, [t |-> res.t, err |-> res.err], << >>)

\* teardownIPMasqNFTables(ipNs, network, ifName, id)
CallTeardownNFTables ==
    \E a \in Identities, ipNs \in MasqLists :
        LET res == teardownIPMasqNFTablesWithInterface(fw.nft, ipNs, a.network, a.ifName, a.id)
        IN ApplyMasq("teardown", "nftables", a, ipNs, res, << >>)

InitMasq ==
    /\ InitNoIpam
    /\ nl = NoNl
    /\ krn = NoKrn
    /\ run = NoRun
    /\ fw = InitFw

NextMasq ==
    \/ CallSetupIPTables
    \/ CallSetupNFTables
    \/ CallTeardownIPTables
    \/ CallTeardownNFTables

SpecMasq == InitMasq /\ [][NextMasq]_vars

\* ------------------------------------------------------- masquerade: iptables rounds
\* a second IPv4 subnet, and the CIDR lists of a round: one CIDR, two and
\* three CIDRs of one protocol in different subnets, one of each protocol
MasqC == IPNet(V4Mapped + 9, V4Bits - 2)
RoundLists == {<<MasqA>>, <<MasqA, MasqC>>, <<MasqA, MasqC, MasqHost>>, <<MasqA, MasqSix>>}
\* two identities with chains of their own
RoundIdentities ==
    {[network |-> "n", ifName |-> "eth0", id |-> "1"],
     [network |-> "m", ifName |-> "eth0", id |-> "1"]}

\* the chain of an identity, and whether a nat table holds it or a jump to it
ChainOf(a) == FormatChainName(a.network, a.id)
ChainLeft(ipt, c) == \E p \in DOMAIN ipt : c \in DOMAIN ipt[p] \/ Referenced(ipt[p], c)

\* fw: the nat tables, the last call and the call before it; fresh tells
\* that the call found neither the identity's chain nor a jump to it
ApplyRound(name, a, ipNs, noTarget, res) ==
    /\ fw.n < MaxMasqCalls
    /\ fw' = [ipt |-> res.t,
              last |-> [op |-> name, backend |-> "iptables", ident |-> a, ipNs |-> ipNs,
                        err |-> res.err, noTarget |-> noTarget,
                        fresh |-> ~ChainLeft(fw.ipt, ChainOf(a))],
              prev |-> fw.last,
              n |-> fw.n + 1]
    /\ UNCHANGED nonFwVars

\* setupIPMasqIPTables(ipNs, network, ifName, id)
CallSetupIPMasqIPTables ==
    \E a \in RoundIdentities, ipNs \in RoundLists :
        ApplyRound("setup", a, ipNs, "",
                   setupIPMasqIPTables(fw.ipt, ipNs, a.network, a.ifName, a.id))

\* teardownIPMasqIPTables(ipNs, network, ifName, id)
CallTeardownIPMasqIPTables ==
    \E a \in RoundIdentities, ipNs \in RoundLists, noTarget \in {"notexist", "other"} :
        LET res == teardownIPMasqIPTables(fw.ipt, ipNs, a.network, a.ifName, a.id, noTarget)
        IN ApplyRound("teardown", a, ipNs, noTarget, [t |-> res.t, err |-> res.err])

NoRoundCall == [op |-> "", backend |-> "", ident |-> "", ipNs |-> << >>, err |-> "nil",
                noTarget |-> "", fresh |-> TRUE]

InitMasqRound ==
    /\ InitNoIpam
    /\ nl = NoNl
    /\ krn = NoKrn
    /\ run = NoRun
    /\ fw = [ipt |-> [p \in {"v4", "v6"} |-> EmptyNat], last |-> NoRoundCall,
             prev |-> NoRoundCall, n |-> 0]

NextMasqRound ==
    \/ CallSetupIPMasqIPTables
    \/ CallTeardownIPMasqIPTables

SpecMasqRound == InitMasqRound /\ [][NextMasqRound]_vars

\* ------------------------------------------------------- masquerade: two goroutines
\* One goroutine runs setupIPMasqNFTablesWithInterface for identity a, another
\* teardownIPMasqNFTablesWithInterface for identity b, on one kernel table.
\* Each call lists the rules (findRules) and then runs its transaction; the
\* kernel serialises the listings and the transactions, nothing else.

\* the tables the two calls may find: untouched, or after setups of b and a
\* for the CIDR list ipNs in either order
NftBefore(a, b, ipNs) ==
    LET after(t, x) == setupIPMasqNFTablesWithInterface(t, ipNs, x.network, x.ifName, x.id).t
    IN {EmptyNft,
        after(EmptyNft, b),
        after(after(EmptyNft, a), b),
        after(after(EmptyNft, b), a)}

\* run while the two calls are under way: per call its identity, where it is,
\* the rules it listed and what it returned; order is the steps taken so far
RacingRun(a, b, ipNs) ==
    [pc |-> "race",
     ipNs |-> ipNs,
     setup |-> [ident |-> a, pc |-> "find", rules |-> << >>, err |-> "nil"],
     teardown |-> [ident |-> b, pc |-> "find", rules |-> << >>, err |-> "nil"],
     order |-> << >>]

nonRaceVars == <<bmVars, seqVars, concVars, rangeVars, nl, krn>>

\* a step of one call: where it is afterwards, what it listed or returned
RaceStep(who, name, pcAfter, rules, err, nft) ==
    /\ run' = [run EXCEPT ![who] = [@ EXCEPT !.pc = pcAfter, !.rules = rules, !.err = err],
                          !.order = Append(@, name)]
    /\ fw' = [fw EXCEPT !.nft = nft]
    /\ UNCHANGED nonRaceVars

\* setupIPMasqNFTablesWithInterface: staleRules, err := findRules(...)
SetupFind ==
    /\ run.pc = "race"
    /\ run.setup.pc = "find"
    /\ LET a == run.setup.ident
       IN RaceStep("setup", "setup.find", "run",
                   findRules(fw.nft, hashForInstance(a.network, a.ifName, a.id)),
                   "nil", fw.nft)

\* setupIPMasqNFTablesWithInterface: return nft.Run(context.TODO(), tx)
SetupRun ==
    /\ run.pc = "race"
    /\ run.setup.pc = "run"
    /\ LET a == run.setup.ident
           res == RunSetup(fw.nft, run.setup.rules, run.ipNs,
                           commentForInstance(a.network, a.ifName, a.id))
       IN RaceStep("setup", "setup.run", "done", run.setup.rules, res.err, res.t)

\* teardownIPMasqNFTablesWithInterface: rules, err := findRules(...), and the
\* return of nil when there is none
TeardownFind ==
    /\ run.pc = "race"
    /\ run.teardown.pc = "find"
    /\ LET b == run.teardown.ident
           rules == findRules(fw.nft, hashForInstance(b.network, b.ifName, b.id))
       IN RaceStep("teardown", "teardown.find", IF Len(rules) = 0 THEN "done" ELSE "run",
                   rules, "nil", fw.nft)

\* teardownIPMasqNFTablesWithInterface: return nft.Run(context.TODO(), tx)
TeardownRun ==
    /\ run.pc = "race"
    /\ run.teardown.pc = "run"
    /\ LET res == RunTeardown(fw.nft, run.teardown.rules)
       IN RaceStep("teardown", "teardown.run", "done", run.teardown.rules, res.err, res.t)

InitMasqRace ==
    /\ InitNoIpam
    /\ nl = NoNl
    /\ krn = NoKrn
    /\ \E a \in Identities, b \in Identities, ipNs \in MasqLists :
          /\ a # b
          /\ run = RacingRun(a, b, ipNs)
          /\ \E t \in NftBefore(a, b, ipNs) : fw = [InitFw EXCEPT !.nft = t]

NextMasqRace ==
    \/ SetupFind
    \/ SetupRun
    \/ TeardownFind
    \/ TeardownRun

SpecMasqRace == InitMasqRace /\ [][NextMasqRace]_vars

\* ------------------------------------------------------- bridge: configuration
\* a Go pointer or slice header: Nil, or Ptr(v) holding v
Nil == << >>
Ptr(v) == <<v>>

\* VlanTrunk{MinID, MaxID, ID}
VlanItem(mn, mx, id) == [MinID |-> mn, MaxID |-> mx, ID |-> id]

RECURSIVE SortedSeq(_)
\* the keys of vlanMap appended to vlans and sorted with sort.Slice
SortedSeq(S) ==
    IF S = {} THEN << >>
    ELSE LET m == CHOOSE x \in S : \A y \in S : x <= y
         IN <<m>> \o SortedSeq(S \ {m})

RECURSIVE collectVlanTrunkFrom(_, _, _)
\* a loop that leaves maxID out of the range of an entry
collectVlanTrunkFromBelowMax(items, i, vlanMap) ==
    IF i > Len(items) THEN [vlans |-> SortedSeq(vlanMap), err |-> "nil"]
    ELSE LET item == items[i]
             both == item.MinID # Nil /\ item.MaxID # Nil
             minID == item.MinID[1]
             maxID == item.MaxID[1]
             ID == item.ID[1]
             rangeErr ==
                 IF both
                 THEN IF minID <= 0 \/ minID > 4094 THEN "incorrect trunk minID parameter"
                      ELSE IF maxID <= 0 \/ maxID > 4094 THEN "incorrect trunk maxID parameter"
                      ELSE IF maxID < minID THEN "minID is greater than maxID in trunk parameter"
                      ELSE "nil"
                 ELSE IF item.MinID = Nil /\ item.MaxID # Nil THEN "minID is missing"
                 ELSE IF item.MinID # Nil /\ item.MaxID = Nil THEN "maxID is missing"
                 ELSE "nil"
             ranged == IF both THEN vlanMap \cup (minID..(maxID - 1)) ELSE vlanMap
             idErr == IF item.ID # Nil /\ (ID <= 0 \/ ID > 4094)
                      THEN "incorrect trunk id parameter" ELSE "nil"
         IN IF rangeErr # "nil" THEN [vlans |-> << >>, err |-> rangeErr]
            ELSE IF idErr # "nil" THEN [vlans |-> << >>, err |-> idErr]
            ELSE collectVlanTrunkFrom(items, i + 1,
                                      IF item.ID # Nil THEN ranged \cup {ID} ELSE ranged)

\* collectVlanTrunk, the loop from item i with the ids collected so far
collectVlanTrunkFrom(items, i, vlanMap) ==
    IF i > Len(items) THEN [vlans |-> SortedSeq(vlanMap), err |-> "nil"]
    ELSE LET item == items[i]
             both == item.MinID # Nil /\ item.MaxID # Nil
             minID == item.MinID[1]
             maxID == item.MaxID[1]
             ID == item.ID[1]
             rangeErr ==
                 IF both
                 THEN IF minID <= 0 \/ minID > 4094 THEN "incorrect trunk minID parameter"
                      ELSE IF maxID <= 0 \/ maxID > 4094 THEN "incorrect trunk maxID parameter"
                      ELSE IF maxID < minID THEN "minID is greater than maxID in trunk parameter"
                      ELSE "nil"
                 ELSE IF item.MinID = Nil /\ item.MaxID # Nil THEN "minID is missing"
                 ELSE IF item.MinID # Nil /\ item.MaxID = Nil THEN "maxID is missing"
                 ELSE "nil"
             ranged == IF both THEN vlanMap \cup (minID..maxID) ELSE vlanMap
             idErr == IF item.ID # Nil /\ (ID <= 0 \/ ID > 4094)
                      THEN "incorrect trunk id parameter" ELSE "nil"
         IN IF rangeErr # "nil" THEN [vlans |-> << >>, err |-> rangeErr]
            ELSE IF idErr # "nil" THEN [vlans |-> << >>, err |-> idErr]
            ELSE collectVlanTrunkFrom(items, i + 1,
                                      IF item.ID # Nil THEN ranged \cup {ID} ELSE ranged)

\* collectVlanTrunk(vlanTrunk)
collectVlanTrunk(vlanTrunk) ==
    IF vlanTrunk = Nil THEN [vlans |-> << >>, err |-> "nil"]
    ELSE collectVlanTrunkFrom(vlanTrunk[1], 1, {})

defaultBrName == "br0"

\* loadBrConf(c): the configuration it returns, or the error
loadBrConf(c) ==
    LET named == IF c.BrName = "" THEN [c EXCEPT !.BrName = defaultBrName] ELSE c
        trunk == collectVlanTrunk(c.VlanTrunk)
    IN IF c.Vlan < 0 \/ c.Vlan > 4094 THEN [c |-> named, err |-> "invalid VLAN ID"]
       ELSE IF trunk.err # "nil" THEN [c |-> named, err |-> "failed to parse vlan trunks"]
       ELSE [c |-> [named EXCEPT !.vlans = trunk.vlans], err |-> "nil"]

\* the pod subnets of a configuration: an IPv4 one written with a host
\* address, an IPv6 one, and an IPv4 one that has no second address
PodV4 == IPNet(V4Mapped + 5, V4Bits - 2)
PodV6 == IPNet(4, V6Bits - 2)
PodHost == IPNet(V4Mapped + 9, V4Bits)
PodCIDRs == {<<PodV4>>, <<PodV6>>, <<PodV4, PodV6>>, <<PodHost>>}

\* the VLAN trunks of a configuration: none, ids 10 to 12, a range upside down
VlanTrunks ==
    {Nil, Ptr(<<VlanItem(Ptr(10), Ptr(12), Nil)>>), Ptr(<<VlanItem(Ptr(12), Ptr(10), Nil)>>)}

\* the BrConf values handed to SetupBridge. IPAMType is c.IPAM.Type; a
\* layer-2 configuration has no use for the IPAM and masquerade fields
BrConfs ==
    {c \in [BrName : {""}, Name : {"n"}, IPAMType : {"", "host-local"},
            DisableContainerInterface : BOOLEAN, HairpinMode : BOOLEAN,
            PromiscMode : BOOLEAN, Vlan : {-1, 0, 4095}, VlanTrunk : VlanTrunks,
            IPMasq : BOOLEAN,
            IPMasqBackend : {Nil, Ptr("iptables"), Ptr("nftables"), Ptr("ipvs")},
            MTU : {1400}, PodCIDR : PodCIDRs, vlans : {<< >>}] :
        /\ c.IPAMType = "" =>
              (~c.IPMasq /\ c.IPMasqBackend = Nil /\ c.PodCIDR = <<PodV4>>)
        /\ ~c.IPMasq => c.IPMasqBackend \in {Nil, Ptr("ipvs")}
        /\ (c.Vlan # 0 \/ c.VlanTrunk # Nil) => (~c.HairpinMode /\ c.PodCIDR = <<PodV4>>)}

\* ------------------------------------------------------- bridge: VLAN trunk calls
\* widest [minID, maxID] range of a trunk entry of the model
MaxTrunkSpan == 3

\* the values minID, maxID and id point to: the ends of [1, 4094], their
\* neighbours outside, and ids inside
TrunkIds == {0, 1, 2, 10, 12, 4094, 4095, 5000}
TrunkPtrs(ids) == {Nil} \cup {Ptr(v) : v \in ids}
\* the entries over ids whose range, if they have one, is not wider than the bound
TrunkItems(ids) ==
    {t \in [MinID : TrunkPtrs(ids), MaxID : TrunkPtrs(ids), ID : TrunkPtrs(ids)] :
        (t.MinID # Nil /\ t.MaxID # Nil) => t.MaxID[1] - t.MinID[1] <= MaxTrunkSpan}
\* the vlanTrunk arguments: nil, the empty list, every single entry, and the
\* pairs of entries over a few ids
TrunkLists ==
    {Nil, Ptr(<< >>)}
    \cup {Ptr(<<t>>) : t \in TrunkItems(TrunkIds)}
    \cup {Ptr(<<t, u>>) : t \in TrunkItems({0, 10, 12}), u \in TrunkItems({0, 10, 12})}

nonTrunkVars == <<bmVars, seqVars, concVars, rangeVars, nl, krn, fw>>

\* collectVlanTrunk(vlanTrunk) is called
CallCollectVlanTrunk ==
    /\ run.pc = "idle"
    /\ \E vlanTrunk \in TrunkLists :
          run' = [pc |-> "collected", vlanTrunk |-> vlanTrunk,
                  ret |-> collectVlanTrunk(vlanTrunk)]
    /\ UNCHANGED nonTrunkVars

InitVlanTrunk ==
    /\ InitNoIpam
    /\ nl = NoNl
    /\ krn = NoKrn
    /\ fw = NoFw
    /\ run = NoRun

NextVlanTrunk == CallCollectVlanTrunk

SpecVlanTrunk == InitVlanTrunk /\ [][NextVlanTrunk]_vars

\* ------------------------------------------------------- bridge: the kernel
\* krn.links is the list of links: name, type, MTU, flags, the addresses in
\* the order they were added, and the link's accept_ra file
Link(name, type, mtu, vlanFiltering) ==
    [name |-> name, type |-> type, mtu |-> mtu, promisc |-> FALSE, up |-> FALSE,
     vlanFiltering |-> vlanFiltering, addrs |-> << >>, acceptRa |-> "1"]

\* the index of the link called name in links, 0 if there is none
LinkIndex(links, name) ==
    IF \E i \in 1..Len(links) : links[i].name = name
    THEN CHOOSE i \in 1..Len(links) : links[i].name = name
    ELSE 0

KOk(k) == [k |-> k, err |-> "nil"]
KErr(k, e) == [k |-> k, err |-> e]

\* os.ReadFile(f): what a read of a sysctl file can return. The file holds
\* its value and a newline; a read that fails returns the data it got
\* before the error, which is nothing or the whole content
ReadOutcomes(k, f) ==
    {[content |-> k[f] \o "\n", err |-> "nil"],
     [content |-> "", err |-> "read"],
     [content |-> k[f] \o "\n", err |-> "read"]}

\* bytes.TrimSpace on the contents a sysctl file of the model can have
TrimSpace(content) ==
    CASE content = "1\n" -> "1"
      [] content = "0\n" -> "0"
      [] OTHER -> content

\* echo1(f): the early return is taken on a failed read whose data is "1";
\* every other read goes on to os.WriteFile. wrote tells whether WriteFile
\* was called, fail whether it fails
echo1(k, f, read, fail) ==
    IF read.err # "nil" /\ TrimSpace(read.content) = "1"
    THEN [k |-> k, err |-> "nil", wrote |-> FALSE]
    ELSE IF fail THEN [k |-> k, err |-> "write " \o f, wrote |-> TRUE]
    ELSE [k |-> [k EXCEPT ![f] = "1"], err |-> "nil", wrote |-> TRUE]

\* EnableIP4Forward, EnableIP6Forward
EnableIP4Forward(k, read, fail) == echo1(k, "fwd4", read, fail)
EnableIP6Forward(k, read, fail) == echo1(k, "fwd6", read, fail)

\* h.LinkAdd(br): EEXIST if a link of that name exists
LinkAdd(k, br, fail) ==
    IF fail THEN KErr(k, "other")
    ELSE IF LinkIndex(k.links, br.name) # 0 THEN KErr(k, "EEXIST")
    ELSE KOk([k EXCEPT !.links = Append(k.links, br)])

\* a LinkModify that the kernel accepts for a link of any type
LinkModifyAnyType(k, br, fail) ==
    LET i == LinkIndex(k.links, br.name)
    IN IF fail \/ i = 0 THEN KErr(k, "other")
       ELSE KOk([k EXCEPT !.links[i].mtu = br.mtu])

\* h.LinkModify(br): the message carries bridge data, which the kernel
\* refuses for a link of another type; on a bridge it sets what br asks for
LinkModify(k, br, fail) ==
    LET i == LinkIndex(k.links, br.name)
    IN IF fail \/ i = 0 \/ k.links[i].type # "bridge" THEN KErr(k, "other")
       ELSE KOk([k EXCEPT !.links[i].mtu = br.mtu,
                          !.links[i].vlanFiltering = br.vlanFiltering \/ @])

\* h.SetPromiscOn(br), h.LinkSetUp(br): the link is found by its name
SetLinkFlag(k, name, flag, fail) ==
    LET i == LinkIndex(k.links, name)
    IN IF fail \/ i = 0 THEN KErr(k, "other")
       ELSE KOk([k EXCEPT !.links[i][flag] = TRUE])

\* bridgeByName(h, name)
bridgeByName(k, name, fail) ==
    LET i == LinkIndex(k.links, name)
    IN IF fail \/ i = 0 THEN KErr(k, "could not lookup")
       ELSE IF k.links[i].type # "bridge" THEN KErr(k, "already exists but is not a bridge")
       ELSE KOk(k)

\* getSysctl("net/ipv6/conf/<name>/accept_ra"): the file's content without
\* its last byte, the newline
getSysctl(k, name) ==
    LET i == LinkIndex(k.links, name)
    IN IF i = 0 THEN [k |-> k, val |-> "", err |-> "no such file"]
       ELSE [k |-> k, val |-> k.links[i].acceptRa, err |-> "nil"]

\* setSysctl(name, value): the file is written, then read
setSysctl(k, name, value) ==
    LET i == LinkIndex(k.links, name)
    IN IF i = 0 THEN [k |-> k, val |-> "", err |-> "no such file"]
       ELSE getSysctl([k EXCEPT !.links[i].acceptRa = value], name)

\* sysctl.Sysctl(name, params...): one parameter sets the value, none reads it
Sysctl(k, name, params) ==
    IF Len(params) > 1 THEN [k |-> k, val |-> "", err |-> "unexcepted additional parameters"]
    ELSE IF Len(params) = 1 THEN setSysctl(k, name, params[1])
    ELSE getSysctl(k, name)

\* the kernel calls of ensureBridge that can be made to fail
DeviceCalls == {"LinkAdd", "LinkModify", "SetPromiscOn", "LinkByName", "LinkSetUp"}

\* ensureBridge(h, brName, mtu, promiscMode, vlanFiltering); fail names the
\* kernel call that fails, "" for none. Sysctl is called with the name of
\* accept_ra alone, and its result and error are dropped
ensureBridge(k, brName, mtu, promiscMode, vlanFiltering, fail) ==
    LET br == Link(brName, "bridge", mtu, vlanFiltering)
        a == LinkAdd(k, br, fail = "LinkAdd")
        m == IF a.err = "EEXIST" THEN LinkModify(k, br, fail = "LinkModify") ELSE a
        p == IF promiscMode THEN SetLinkFlag(m.k, brName, "promisc", fail = "SetPromiscOn")
             ELSE KOk(m.k)
        b == bridgeByName(p.k, brName, fail = "LinkByName")
        s == Sysctl(b.k, brName, << >>)
        u == SetLinkFlag(s.k, brName, "up", fail = "LinkSetUp")
    IN IF m.err # "nil" THEN KErr(m.k, "could not add or modify")
       ELSE IF p.err # "nil" THEN KErr(p.k, "could not set promiscuous mode")
       ELSE IF b.err # "nil" THEN b
       ELSE u

\* setupBridge(h, c)
setupBridge(k, c, fail) ==
    ensureBridge(k, c.BrName, c.MTU, c.PromiscMode, c.Vlan # 0 \/ c.VlanTrunk # Nil, fail)

\* h.AddrStrList(br, netlink.FAMILY_V4): the IPv4 addresses of the link
AddrStrList(k, name, family) ==
    LET i == LinkIndex(k.links, name)
    IN SelectSeq(k.links[i].addrs, LAMBDA a : a[1] = family)

\* h.AddrAdd(br, addr): EEXIST if the link has the address
AddrAdd(k, name, addr, fail) ==
    LET i == LinkIndex(k.links, name)
    IN IF fail \/ i = 0 THEN KErr(k, "other")
       ELSE IF Member(k.links[i].addrs, addr) THEN KErr(k, "EEXIST")
       ELSE KOk([k EXCEPT !.links[i].addrs = Append(@, addr)])

\* net.ParseCIDR(cidr): the subnet, its address masked
ParseCIDR(cidr) == [cidr EXCEPT !.ip = MaskedIP(cidr)]

\* calcGateways(cidr): the second address of the subnet with the subnet's mask
calcGateways(cidr) ==
    LET ipNet == ParseCIDR(cidr)
        gw == GetIndexedIP(ipNet, 1)
    IN IF gw.err # "nil" THEN [gw |-> ipNet, err |-> gw.err]
       ELSE [gw |-> [ipNet EXCEPT !.ip = gw.ip], err |-> "nil"]

\* a SetupIPMasqForNetworks that, with no backend given, takes nftables
\* wherever the host supports it
SetupIPMasqForNetworksPreferNFTables(f, host, backend, ipNs, network, ifName, id) ==
    LET defaultBackend == IF host.nftables THEN "nftables" ELSE "iptables"
        chosen == IF backend = Nil THEN defaultBackend ELSE backend[1]
        ipt == setupIPMasqIPTables(f.ipt, ipNs, network, ifName, id)
        nft == setupIPMasqNFTablesWithInterface(f.nft, ipNs, network, ifName, id)
    IN IF chosen = "iptables"
       THEN IF ~host.iptables /\ ipNs # << >>
            THEN [f |-> f, err |-> "failed to locate iptables", used |-> chosen]
            ELSE [f |-> [f EXCEPT !.ipt = ipt.t], err |-> ipt.err, used |-> chosen]
       ELSE IF chosen = "nftables"
       THEN IF ~host.nftables THEN [f |-> f, err |-> "no nftables", used |-> chosen]
            ELSE [f |-> [f EXCEPT !.nft = nft.t], err |-> nft.err, used |-> chosen]
       ELSE [f |-> f, err |-> "unsupported ip backend", used |-> ""]

\* SetupIPMasqForNetworks(backend, ipNs, network, ifName, id) on firewall f of
\* a host that supports the backends of host; used is the backend whose setup
\* was called
SetupIPMasqForNetworks(f, host, backend, ipNs, network, ifName, id) ==
    LET defaultBackend == IF ~host.iptables /\ host.nftables THEN "nftables" ELSE "iptables"
        chosen == IF backend = Nil THEN defaultBackend ELSE backend[1]
        ipt == setupIPMasqIPTables(f.ipt, ipNs, network, ifName, id)
        nft == setupIPMasqNFTablesWithInterface(f.nft, ipNs, network, ifName, id)
    IN IF chosen = "iptables"
       THEN IF ~host.iptables /\ ipNs # << >>
            THEN [f |-> f, err |-> "failed to locate iptables", used |-> chosen]
            ELSE [f |-> [f EXCEPT !.ipt = ipt.t], err |-> ipt.err, used |-> chosen]
       ELSE IF chosen = "nftables"
       THEN IF ~host.nftables THEN [f |-> f, err |-> "no nftables", used |-> chosen]
            ELSE [f |-> [f EXCEPT !.nft = nft.t], err |-> nft.err, used |-> chosen]
       ELSE [f |-> f, err |-> "unsupported ip backend", used |-> ""]

\* ------------------------------------------------------- masquerade: the host's backends
\* a TeardownIPMasqForNetworks that returns the error of the iptables
\* teardown at once
TeardownIPMasqForNetworksFirstError(f, host, ipNs, network, ifName, id, noTarget, nftFail) ==
    LET ipt == IF host.iptables
               THEN teardownIPMasqIPTables(f.ipt, ipNs, network, ifName, id, noTarget)
               ELSE [t |-> f.ipt, err |-> IF ipNs = << >> THEN "nil" ELSE "failed to locate iptables"]
        rules == findRules(f.nft, hashForInstance(network, ifName, id))
        nft == IF ipt.err # "nil" THEN [t |-> f.nft, err |-> "nil"]
               ELSE IF ~host.nftables THEN [t |-> f.nft, err |-> "no nftables"]
               ELSE IF nftFail /\ Len(rules) > 0 THEN [t |-> f.nft, err |-> "other"]
               ELSE teardownIPMasqNFTablesWithInterface(f.nft, ipNs, network, ifName, id)
        errs == (IF ipt.err # "nil" /\ host.iptables THEN <<"iptables">> ELSE << >>)
                \o (IF nft.err # "nil" /\ host.nftables THEN <<"nftables">> ELSE << >>)
    IN [f |-> [f EXCEPT !.ipt = ipt.t, !.nft = nft.t],
        raw |-> [iptables |-> ipt.err, nftables |-> nft.err],
        errs |-> errs,
        err |-> IF errs = << >> THEN "nil" ELSE "other"]

\* TeardownIPMasqForNetworks(ipNs, network, ifName, id) on firewall f of a host
\* that supports the backends of host. Without the iptables binary every
\* TeardownIPMasq fails to locate it; without nft, knftables.New fails.
\* nftFail: nft.Run fails for a reason of its own. raw holds what the two
\* teardowns returned, errs the backends whose error is in the returned one.
TeardownIPMasqForNetworks(f, host, ipNs, network, ifName, id, noTarget, nftFail) ==
    LET ipt == IF host.iptables
               THEN teardownIPMasqIPTables(f.ipt, ipNs, network, ifName, id, noTarget)
               ELSE [t |-> f.ipt, err |-> IF ipNs = << >> THEN "nil" ELSE "failed to locate iptables"]
        rules == findRules(f.nft, hashForInstance(network, ifName, id))
        nft == IF ~host.nftables THEN [t |-> f.nft, err |-> "no nftables"]
               ELSE IF nftFail /\ Len(rules) > 0 THEN [t |-> f.nft, err |-> "other"]
               ELSE teardownIPMasqNFTablesWithInterface(f.nft, ipNs, network, ifName, id)
        errs == (IF ipt.err # "nil" /\ host.iptables THEN <<"iptables">> ELSE << >>)
                \o (IF nft.err # "nil" /\ host.nftables THEN <<"nftables">> ELSE << >>)
    IN [f |-> [f EXCEPT !.ipt = ipt.t, !.nft = nft.t],
        raw |-> [iptables |-> ipt.err, nftables |-> nft.err],
        errs |-> errs,
        err |-> IF errs = << >> THEN "nil" ELSE "other"]

\* the backend arguments of SetupIPMasqForNetworks: nil, the two backends, and
\* a string that names none
BackendArgs == {Nil, Ptr("iptables"), Ptr("nftables"), Ptr("ipvs")}
\* the hosts: every combination of SupportsIPTables() and SupportsNFTables()
Hosts == [iptables : BOOLEAN, nftables : BOOLEAN]
\* the identities of the calls on one host
HostIdentities == {a \in Identities : a.network = "n" /\ a.id = "1"}

\* one call on the firewall of the host: what it left and what it returned
ApplyOnHost(name, backend, a, ipNs, res, used, raw, errs) ==
    /\ fw.n < MaxMasqCalls
    /\ fw' = [res.f EXCEPT !.last = [op |-> name, backend |-> backend, ident |-> a,
                                     ipNs |-> ipNs, err |-> res.err, used |-> used,
                                     raw |-> raw, errs |-> errs],
                           !.n = fw.n + 1]
    /\ UNCHANGED nonFwVars

\* SetupIPMasqForNetworks(backend, ipNs, network, ifName, id)
CallSetupIPMasqForNetworks ==
    \E backend \in BackendArgs, a \in HostIdentities, ipNs \in MasqLists :
        LET res == SetupIPMasqForNetworks(fw, krn.host, backend, ipNs, a.network, a.ifName, a.id)
        IN ApplyOnHost("setup", backend, a, ipNs, res, res.used,
                       [iptables |-> "nil", nftables |-> "nil"], << >>)

\* TeardownIPMasqForNetworks(ipNs, network, ifName, id)
CallTeardownIPMasqForNetworks ==
    \E a \in HostIdentities, ipNs \in MasqLists, noTarget \in {"notexist", "other"},
       nftFail \in BOOLEAN :
        LET res == TeardownIPMasqForNetworks(fw, krn.host, ipNs, a.network, a.ifName, a.id,
                                             noTarget, nftFail)
        IN ApplyOnHost("teardown", Nil, a, ipNs, res, "", res.raw, res.errs)

InitMasqHost ==
    /\ InitNoIpam
    /\ nl = NoNl
    /\ run = NoRun
    /\ \E h \in Hosts : krn = [links |-> << >>, host |-> h, fwd4 |-> "0", fwd6 |-> "0"]
    /\ fw = [InitFw EXCEPT !.last = [op |-> "", backend |-> Nil, ident |-> "", ipNs |-> << >>,
                                     err |-> "nil", used |-> "",
                                     raw |-> [iptables |-> "nil", nftables |-> "nil"],
                                     errs |-> << >>]]

NextMasqHost ==
    \/ CallSetupIPMasqForNetworks
    \/ CallTeardownIPMasqForNetworks

SpecMasqHost == InitMasqHost /\ [][NextMasqHost]_vars

\* ------------------------------------------------------- vlan: CreateVlan, DeleteVlan
\* most CreateVlan and DeleteVlan calls in one behaviour
MaxVlanCalls == 2

\* Here krn.links is the list of links with the index the kernel gave each,
\* its name, type, MTU and, for a VLAN link, parent index and VLAN id;
\* krn.next is the index of the next link
HostLink(index, name, mtu) ==
    [index |-> index, name |-> name, type |-> "device", mtu |-> mtu, parent |-> 0, vlanId |-> 0]
NoLink == HostLink(0, "", 0)

\* h.LinkByName(name): the link, or a netlink.LinkNotFoundError
LinkByName(k, name, fail) ==
    LET i == LinkIndex(k.links, name)
    IN IF fail THEN [link |-> NoLink, err |-> "other"]
       ELSE IF i = 0 THEN [link |-> NoLink, err |-> "LinkNotFoundError"]
       ELSE [link |-> k.links[i], err |-> "nil"]

\* getMTUByName(h, ifName)
getMTUByName(k, ifName, fail) ==
    LET l == LinkByName(k, ifName, fail)
    IN IF l.err # "nil" THEN [mtu |-> 0, err |-> l.err]
       ELSE [mtu |-> l.link.mtu, err |-> "nil"]

\* h.LinkAdd(v) for a netlink.Vlan: the kernel refuses a name that is taken,
\* a parent that is gone, an id the parent already carries and an MTU above
\* the parent's; the MTU attribute is sent only when it is above 0, without
\* it the link takes the parent's MTU
VlanLinkAdd(k, v, fail) ==
    LET p == {i \in 1..Len(k.links) : k.links[i].index = v.parent}
        parent == k.links[CHOOSE i \in p : TRUE]
    IN IF fail THEN KErr(k, "other")
       ELSE IF LinkIndex(k.links, v.name) # 0 THEN KErr(k, "EEXIST")
       ELSE IF p = {} THEN KErr(k, "ENODEV")
       ELSE IF \E i \in 1..Len(k.links) :
                  /\ k.links[i].type = "vlan"
                  /\ k.links[i].parent = v.parent
                  /\ k.links[i].vlanId = v.vlanId
            THEN KErr(k, "EEXIST")
       ELSE IF v.mtu > parent.mtu THEN KErr(k, "EINVAL")
       ELSE KOk([k EXCEPT
                   !.links = Append(@, [index |-> k.next, name |-> v.name, type |-> "vlan",
                                        mtu |-> IF v.mtu > 0 THEN v.mtu ELSE parent.mtu,
                                        parent |-> v.parent, vlanId |-> v.vlanId]),
                   !.next = @ + 1])

\* a CreateVlan that takes any MTU
CreateVlanAnyMTU(k, ifName, c, fail) ==
    LET masterMTU == getMTUByName(k, c.Master, fail = "getMTUByName")
        m == LinkByName(k, c.Master, fail = "LinkByName")
        v == [name |-> ifName, mtu |-> c.MTU, parent |-> m.link.index, vlanId |-> c.VlanID]
        a == VlanLinkAdd(k, v, fail = "LinkAdd")
    IN IF c.Master = "" THEN KErr(k, "master field is required")
       ELSE IF c.VlanID < 0 \/ c.VlanID > 4094 THEN KErr(k, "invalid VLAN ID")
       ELSE IF masterMTU.err # "nil" THEN KErr(k, masterMTU.err)
       ELSE IF m.err # "nil" THEN KErr(k, "failed to lookup master")
       ELSE IF a.err # "nil" THEN KErr(k, "failed to create vlan")
       ELSE a

\* CreateVlan(h, ifName, c); fail names the kernel call that fails for a
\* reason of its own, "" for none
CreateVlan(k, ifName, c, fail) ==
    LET masterMTU == getMTUByName(k, c.Master, fail = "getMTUByName")
        m == LinkByName(k, c.Master, fail = "LinkByName")
        v == [name |-> ifName, mtu |-> c.MTU, parent |-> m.link.index, vlanId |-> c.VlanID]
        a == VlanLinkAdd(k, v, fail = "LinkAdd")
    IN IF c.Master = "" THEN KErr(k, "master field is required")
       ELSE IF c.VlanID < 0 \/ c.VlanID > 4094 THEN KErr(k, "invalid VLAN ID")
       ELSE IF masterMTU.err # "nil" THEN KErr(k, masterMTU.err)
       ELSE IF c.MTU < 0 \/ c.MTU > masterMTU.mtu THEN KErr(k, "invalid MTU")
       ELSE IF m.err # "nil" THEN KErr(k, "failed to lookup master")
       ELSE IF a.err # "nil" THEN KErr(k, "failed to create vlan")
       ELSE a

\* h.LinkDel(l): the link leaves, and with it the VLAN links on top of it
LinkDel(k, l, fail) ==
    IF fail THEN KErr(k, "other")
    ELSE KOk([k EXCEPT !.links = SelectSeq(@, LAMBDA x : x.index # l.index
                                                        /\ x.parent # l.index)])

\* DelLinkByName(h, ifName)
DelLinkByName(k, ifName, fail) ==
    LET l == LinkByName(k, ifName, fail = "LinkByName")
        d == LinkDel(k, l.link, fail = "LinkDel")
    IN IF l.err = "LinkNotFoundError" THEN KErr(k, "ErrLinkNotFound")
       ELSE IF l.err # "nil" THEN KErr(k, "failed to lookup")
       ELSE IF d.err # "nil" THEN KErr(k, "failed to delete link")
       ELSE d

\* DeleteVlan(h, ifName)
DeleteVlan(k, ifName, fail) == DelLinkByName(k, ifName, fail)

\* the host interface every behaviour starts with, and its MTU
MasterName == "eth0"
MasterMTU == 1500
\* the vlan.Conf values: no master, the master, a name without a link; ids
\* and MTUs at and beyond the ends of their ranges
VlanConfs ==
    [Master : {"", MasterName, "eth9"},
     VlanID : {-1, 0, 4094, 4095},
     MTU : {-1, 0, 1400, MasterMTU, MasterMTU + 1}]
VlanNames == {"vlan0", "vlan1", MasterName}

nonVlanVars == <<bmVars, seqVars, concVars, rangeVars, nl, fw>>

\* one call: what it left and what it returned
ApplyVlan(name, ifName, c, fail, res) ==
    /\ run.n < MaxVlanCalls
    /\ krn' = res.k
    /\ run' = [pc |-> "vlan", n |-> run.n + 1, op |-> name, ifName |-> ifName, c |-> c,
               fail |-> fail, err |-> res.err]
    /\ UNCHANGED nonVlanVars

\* CreateVlan(h, ifName, c)
CallCreateVlan ==
    \E ifName \in VlanNames, c \in VlanConfs,
       fail \in {"", "getMTUByName", "LinkByName", "LinkAdd"} :
        ApplyVlan("CreateVlan", ifName, c, fail, CreateVlan(krn, ifName, c, fail))

\* DeleteVlan(h, ifName), for the name of a VLAN link
CallDeleteVlan ==
    \E ifName \in VlanNames \ {MasterName}, fail \in {"", "LinkByName", "LinkDel"} :
        ApplyVlan("DeleteVlan", ifName, [Master |-> "", VlanID |-> 0, MTU |-> 0], fail,
                  DeleteVlan(krn, ifName, fail))

InitVlan ==
    /\ InitNoIpam
    /\ nl = NoNl
    /\ fw = NoFw
    /\ krn = [links |-> <<HostLink(1, MasterName, MasterMTU)>>, next |-> 2]
    /\ run = [pc |-> "vlan", n |-> 0, op |-> "", ifName |-> "",
              c |-> [Master |-> "", VlanID |-> 0, MTU |-> 0], fail |-> "", err |-> "nil"]

NextVlan ==
    \/ CallCreateVlan
    \/ CallDeleteVlan

SpecVlan == InitVlan /\ [][NextVlan]_vars

\* ------------------------------------------------------- links: DelLinkByNameAddr
\* most DelLinkByNameAddr calls in one behaviour
MaxDelCalls == 2

\* Here a link also has its addresses, in the order the kernel lists them.
\* An address is its text and the kind net.IP's predicates give it
AddrLink(index, name, addrs) ==
    [index |-> index, name |-> name, type |-> "device", mtu |-> 1500, parent |-> 0,
     vlanId |-> 0, addrs |-> addrs]
LinkAddrs ==
    <<[ip |-> "10.0.0.2/24", kind |-> "unicast"],
      [ip |-> "fe80::2/64", kind |-> "link-local unicast"],
      [ip |-> "fd00::2/64", kind |-> "unicast"],
      [ip |-> "224.0.0.9/32", kind |-> "multicast"]>>

\* net.IP.IsGlobalUnicast: a unicast address that is not unspecified, loopback,
\* link-local or the IPv4 broadcast address
IsGlobalUnicast(addr) == addr.kind = "unicast"

\* h.AddrList(l, netlink.FAMILY_ALL): dumpErr is the error of the last attempt
\* of netlink's AddrList. A dump interrupted on every attempt loses its
\* error in discardErrDumpInterrupted and returns the addresses it was shown
AddrList(k, l, dumpErr, shown) ==
    LET here == {i \in 1..Len(k.links) : k.links[i].index = l.index}
        has == IF here = {} THEN << >> ELSE k.links[CHOOSE i \in here : TRUE].addrs
    IN IF IsDumpInterrupted(dumpErr)
       THEN [addrs |-> SelectSeq(has, LAMBDA a : a \in shown),
             err |-> discardErrDumpInterrupted(dumpErr)]
       ELSE IF dumpErr # "nil" THEN [addrs |-> << >>, err |-> discardErrDumpInterrupted(dumpErr)]
       ELSE [addrs |-> has, err |-> "nil"]

\* what a DelLinkByNameAddr returns: the kernel it leaves, the addresses, the
\* error and the kernel calls it made
DelResult(k, ips, e, made) == [k |-> k, out |-> ips, err |-> e, calls |-> made]

\* a DelLinkByNameAddr that deletes the link before it lists the addresses
DelLinkByNameAddrDeleteFirst(k, ifName, fail, dumpErr, shown) ==
    LET l == LinkByName(k, ifName, fail = "LinkByName")
        d == LinkDel(k, l.link, fail = "LinkDel")
        a == AddrList(d.k, l.link, dumpErr, shown)
    IN IF l.err = "LinkNotFoundError" THEN DelResult(k, << >>, "ErrLinkNotFound", <<"LinkByName">>)
       ELSE IF l.err # "nil" THEN DelResult(k, << >>, "failed to lookup", <<"LinkByName">>)
       ELSE IF d.err # "nil"
            THEN DelResult(k, << >>, "failed to delete link", <<"LinkByName", "LinkDel">>)
       ELSE IF a.err # "nil"
            THEN DelResult(d.k, << >>, "failed to get IP addresses",
                           <<"LinkByName", "LinkDel", "AddrList">>)
       ELSE DelResult(d.k, SelectSeq(a.addrs, IsGlobalUnicast), "nil",
                      <<"LinkByName", "LinkDel", "AddrList">>)

\* DelLinkByNameAddr(h, ifName); fail names the kernel call that fails for a
\* reason of its own, "" for none
DelLinkByNameAddr(k, ifName, fail, dumpErr, shown) ==
    LET l == LinkByName(k, ifName, fail = "LinkByName")
        a == AddrList(k, l.link, dumpErr, shown)
        d == LinkDel(k, l.link, fail = "LinkDel")
    IN IF l.err = "LinkNotFoundError" THEN DelResult(k, << >>, "ErrLinkNotFound", <<"LinkByName">>)
       ELSE IF l.err # "nil" THEN DelResult(k, << >>, "failed to lookup", <<"LinkByName">>)
       ELSE IF a.err # "nil"
            THEN DelResult(k, << >>, "failed to get IP addresses", <<"LinkByName", "AddrList">>)
       ELSE IF d.err # "nil"
            THEN DelResult(k, << >>, "failed to delete link",
                           <<"LinkByName", "AddrList", "LinkDel">>)
       ELSE DelResult(d.k, SelectSeq(a.addrs, IsGlobalUnicast), "nil",
                      <<"LinkByName", "AddrList", "LinkDel">>)

\* the address lists of a link: LinkAddrs without any of its entries
AddrSets == SUBSET {LinkAddrs[i] : i \in 1..Len(LinkAddrs)}
DelNames == {"veth0", "veth1"}

nonDelVars == <<bmVars, seqVars, concVars, rangeVars, nl, fw>>

\* DelLinkByNameAddr(h, ifName): run keeps the call, the kernel it found and
\* what it returned
CallDelLinkByNameAddr ==
    /\ run.n < MaxDelCalls
    /\ \E ifName \in DelNames, fail \in {"", "LinkByName", "LinkDel"},
          dumpErr \in {"nil", "other", "ErrDumpInterrupted"}, shown \in AddrSets :
          LET res == DelLinkByNameAddr(krn, ifName, fail, dumpErr, shown)
          IN /\ dumpErr # "ErrDumpInterrupted" => shown = {}
             /\ krn' = res.k
             /\ run' = [pc |-> "del", n |-> run.n + 1, ifName |-> ifName, fail |-> fail,
                        got |-> dumpErr, seen |-> shown, before |-> krn, out |-> res.out,
                        err |-> res.err, calls |-> res.calls]
    /\ UNCHANGED nonDelVars

InitDelLink ==
    /\ InitNoIpam
    /\ nl = NoNl
    /\ fw = NoFw
    /\ \E has \in AddrSets :
          krn = [links |-> <<AddrLink(1, "eth0", << >>),
                            AddrLink(2, "veth0", SelectSeq(LinkAddrs, LAMBDA a : a \in has))>>]
    /\ run = [pc |-> "del", n |-> 0, ifName |-> "", fail |-> "", got |-> "nil", seen |-> {},
              before |-> krn, out |-> << >>, err |-> "nil", calls |-> << >>]

NextDelLink == CallDelLinkByNameAddr

SpecDelLink == InitDelLink /\ [][NextDelLink]_vars

\* ------------------------------------------------------- forwarding: the sysctl files
\* most calls of the forwarding functions in one behaviour
MaxForwardCalls == 3

nonForwardVars == <<bmVars, seqVars, concVars, rangeVars, nl, fw>>

\* run: the number of calls so far, the function called last, the value of
\* its file before the call, the read and the write it was given, and what
\* it returned
ApplyForward(fn, f, read, fail, e) ==
    /\ run.n < MaxForwardCalls
    /\ krn' = e.k
    /\ run' = [pc |-> "forward", n |-> run.n + 1, fn |-> fn, file |-> f,
               before |-> krn[f], read |-> read, fail |-> fail,
               err |-> e.err, wrote |-> e.wrote]
    /\ UNCHANGED nonForwardVars

CallEnableIP4Forward ==
    \E read \in ReadOutcomes(krn, "fwd4"), fail \in BOOLEAN :
        ApplyForward("EnableIP4Forward", "fwd4", read, fail, EnableIP4Forward(krn, read, fail))

CallEnableIP6Forward ==
    \E read \in ReadOutcomes(krn, "fwd6"), fail \in BOOLEAN :
        ApplyForward("EnableIP6Forward", "fwd6", read, fail, EnableIP6Forward(krn, read, fail))

InitForward ==
    /\ InitNoIpam
    /\ nl = NoNl
    /\ krn \in [fwd4 : {"0", "1"}, fwd6 : {"0", "1"}]
    /\ fw = NoFw
    /\ run = [pc |-> "forward", n |-> 0, fn |-> "", file |-> "", before |-> "",
              read |-> [content |-> "", err |-> "nil"], fail |-> FALSE,
              err |-> "nil", wrote |-> FALSE]

NextForward ==
    \/ CallEnableIP4Forward
    \/ CallEnableIP6Forward

SpecForward == InitForward /\ [][NextForward]_vars

\* ------------------------------------------------------- bridge: SetupBridge
\* most SetupBridge calls in one behaviour
MaxBridgeCalls == 2

NoConf == [BrName |-> "", Name |-> "", IPAMType |-> "", DisableContainerInterface |-> FALSE,
           HairpinMode |-> FALSE, PromiscMode |-> FALSE, Vlan |-> 0, VlanTrunk |-> Nil,
           IPMasq |-> FALSE, IPMasqBackend |-> Nil, MTU |-> 0, PodCIDR |-> << >>,
           vlans |-> << >>]

\* a kernel with these links on a host that supports these backends
Kernel(links, host) == [fwd4 |-> "0", fwd6 |-> "0", links |-> links, host |-> host]

\* the kernels SetupBridge starts on: no link of the bridge's name or a dummy
\* link of that name; both firewall backends or nftables alone
Kernels ==
    {Kernel(l, h) : l \in {<< >>, <<Link(defaultBrName, "dummy", 1500, FALSE)>>},
                    h \in {[iptables |-> TRUE, nftables |-> TRUE],
                           [iptables |-> FALSE, nftables |-> TRUE]}}

\* run: where the call is, its configuration as given (orig) and as loaded
\* (conf), the steps it ran with their outcome, the kernel and firewall as
\* the call found them, whether a kernel call was made to fail, what the
\* call returned, and the returns of the calls before it
IdleRun(k, f) ==
    [pc |-> "idle", orig |-> NoConf, conf |-> NoConf, trace |-> << >>, list |-> << >>,
     gws |-> << >>, i |-> 0, ret |-> "", rets |-> << >>, injected |-> FALSE,
     before |-> [krn |-> k, fw |-> f]]

nonBridgeVars == <<bmVars, seqVars, concVars, rangeVars, nl>>

\* a step that goes on whatever its outcome
AfterStepGoOn(r, ok, next) ==
    [r EXCEPT !.pc = next, !.ret = IF next = "done" THEN "ok" ELSE ""]

\* where the call is after a step: a failed step returns the error, the last
\* step returns the bridge
AfterStep(r, ok, next) ==
    IF ~ok THEN [r EXCEPT !.pc = "done", !.ret = "err"]
    ELSE [r EXCEPT !.pc = next, !.ret = IF next = "done" THEN "ok" ELSE ""]

\* the step name ran with outcome ok, after it the call is at next
Step(r, name, ok, failed, next) ==
    AfterStep([r EXCEPT !.trace = Append(@, [step |-> name, ok |-> ok]),
                        !.injected = @ \/ failed],
              ok, next)

isLayer3(c) == c.IPAMType # ""
\* the position after the device step, and after the last gateway
AfterDevice(c) == IF isLayer3(c) THEN "list" ELSE "done"
AfterGateways(c) == IF c.IPMasq THEN "masq" ELSE "done"

\* SetupBridge, 1: loadBrConf and the checks of the configuration
Validate(c) ==
    LET l == loadBrConf(c)
        ok == /\ l.err = "nil"
              /\ ~(isLayer3(l.c) /\ l.c.DisableContainerInterface)
              /\ ~(l.c.HairpinMode /\ l.c.PromiscMode)
        r == [IdleRun(krn, fw) EXCEPT !.orig = c, !.conf = l.c,
                 !.rets = IF run.ret = "" THEN run.rets ELSE Append(run.rets, run.ret)]
    IN /\ run' = Step(r, "validate", ok, FALSE, IF isLayer3(l.c) THEN "fwd4" ELSE "device")
       /\ UNCHANGED <<krn, fw, nonBridgeVars>>

\* SetupBridge is called with a configuration
CallSetupBridge ==
    /\ run.pc = "idle"
    /\ \E c \in BrConfs : Validate(c)

\* SetupBridge is called again with the configuration of the call before
CallSetupBridgeAgain ==
    /\ run.pc = "done"
    /\ Len(run.rets) + 1 < MaxBridgeCalls
    /\ Validate(run.conf)

\* SetupBridge, 2: ip.EnableIP4Forward()
StepForward4 ==
    /\ run.pc = "fwd4"
    /\ \E read \in ReadOutcomes(krn, "fwd4"), fail \in BOOLEAN :
          LET e == EnableIP4Forward(krn, read, fail)
          IN /\ krn' = e.k
             /\ run' = Step(run, "forward4", e.err = "nil", fail /\ e.wrote, "fwd6")
    /\ UNCHANGED <<fw, nonBridgeVars>>

\* SetupBridge, 2: ip.EnableIP6Forward()
StepForward6 ==
    /\ run.pc = "fwd6"
    /\ \E read \in ReadOutcomes(krn, "fwd6"), fail \in BOOLEAN :
          LET e == EnableIP6Forward(krn, read, fail)
          IN /\ krn' = e.k
             /\ run' = Step(run, "forward6", e.err = "nil", fail /\ e.wrote, "device")
    /\ UNCHANGED <<fw, nonBridgeVars>>

\* SetupBridge, 3: setupBridge(h, c)
StepDevice ==
    /\ run.pc = "device"
    /\ \E fail \in DeviceCalls \cup {""} :
          LET e == setupBridge(krn, run.conf, fail)
          IN /\ krn' = e.k
             /\ run' = Step(run, "device", e.err = "nil", fail # "", AfterDevice(run.conf))
    /\ UNCHANGED <<fw, nonBridgeVars>>

\* SetupBridge, 4: h.AddrStrList(br, netlink.FAMILY_V4)
StepAddrList ==
    /\ run.pc = "list"
    /\ \E fail \in BOOLEAN :
          run' = Step([run EXCEPT !.list = IF fail THEN << >>
                                           ELSE AddrStrList(krn, run.conf.BrName, "v4"),
                                  !.i = 1],
                      "list", ~fail, fail,
                      IF run.conf.PodCIDR = << >> THEN AfterGateways(run.conf) ELSE "gw")
    /\ UNCHANGED <<krn, fw, nonBridgeVars>>

\* SetupBridge, 4: one pass of the loop over the pod subnets
StepGateway ==
    /\ run.pc = "gw"
    /\ \E fail \in BOOLEAN :
          LET g == calcGateways(run.conf.PodCIDR[run.i])
              absent == ~Member(run.list, NetString(g.gw))
              a == IF g.err = "nil" /\ absent
                   THEN AddrAdd(krn, run.conf.BrName, NetString(g.gw), fail)
                   ELSE KOk(krn)
              ok == g.err = "nil" /\ a.err = "nil"
          IN /\ krn' = a.k
             /\ run' = Step([run EXCEPT !.i = @ + 1,
                                        !.gws = IF g.err = "nil" /\ absent
                                                THEN Append(@, g.gw) ELSE @],
                            "gateway", ok, fail /\ g.err = "nil" /\ absent,
                            IF run.i < Len(run.conf.PodCIDR) THEN "gw"
                            ELSE AfterGateways(run.conf))
    /\ UNCHANGED <<fw, nonBridgeVars>>

\* SetupBridge, 5: ip.SetupIPMasqForNetworks(c.IPMasqBackend, gws, c.Name, "", "")
StepMasq ==
    /\ run.pc = "masq"
    /\ \E fail \in BOOLEAN :
          LET m == SetupIPMasqForNetworks(fw, krn.host, run.conf.IPMasqBackend, run.gws,
                                          run.conf.Name, "", "")
              ok == ~fail /\ m.err = "nil"
          IN /\ fw' = IF fail THEN fw ELSE m.f
             /\ run' = Step(run, "masquerade", ok, fail, "done")
    /\ UNCHANGED <<krn, nonBridgeVars>>

InitBridge ==
    /\ InitNoIpam
    /\ nl = NoNl
    /\ krn \in Kernels
    /\ fw = InitFw
    /\ run = IdleRun(krn, fw)

NextBridge ==
    \/ CallSetupBridge
    \/ CallSetupBridgeAgain
    \/ StepForward4
    \/ StepForward6
    \/ StepDevice
    \/ StepAddrList
    \/ StepGateway
    \/ StepMasq

SpecBridge == InitBridge /\ [][NextBridge]_vars

\* ------------------------------------------------------- queue: ChanQueue
\* largest capacity of the job channel, most workers, most jobs pushed by the
\* goroutine that owns the queue
MaxQueueCap == 2
MaxWorkers == 2
MaxJobs == 2

\* the goroutines that call the queue: 1 owns it, the others push
QClients == 1..3

\* A usage is what the goroutines call and in which order: prog[c] is the
\* sequence of calls of goroutine c, and the goroutines other than 1 start
\* once goroutine 1 has returned from its first `after` calls
Usage(kind, capacity, maxThread, prog, after) ==
    [kind |-> kind, maxCapacity |-> capacity, maxThread |-> maxThread, prog |-> prog,
     after |-> after]

RECURSIVE Pushes(_)
Pushes(n) == IF n = 0 THEN << >> ELSE <<"Push">> \o Pushes(n - 1)

\* the documented protocol: Run, pushes from one goroutine, Terminate
ProtocolUsages ==
    {Usage("protocol", cp, w, <<<<"Run">> \o Pushes(n) \o <<"Terminate">>, << >>, << >>>>, 0) :
        cp \in 1..MaxQueueCap, w \in 1..MaxWorkers, n \in 0..MaxJobs}

\* a call on the queue before Run, then Run and a job
UnstartedUsages ==
    {Usage("unstarted", cp, w, <<<<first, "Run", "Push", "Terminate">>, << >>, << >>>>, 0) :
        cp \in 1..MaxQueueCap, w \in 1..MaxWorkers, first \in {"Push", "Terminate"}}

\* pushes from other goroutines while the owner terminates the running queue
ConcurrentUsages ==
    {Usage("concurrent", cp, w, <<<<"Run", "Terminate">>, <<"Push">>, p3>>, 1) :
        cp \in 1..MaxQueueCap, w \in 1..MaxWorkers, p3 \in {<< >>, <<"Push">>}}

\* a worker as newWorker makes it, before Start: made tells that
\* q.workers[i] holds it; quit and jobChan are open
NoWorker == [made |-> FALSE, at |-> "none", job |-> 0, quit |-> FALSE, jobChan |-> FALSE]

\* NewQueue(maxCapacity, maxThread) and the goroutines of a usage. jobQueue
\* and workerPool are the contents of the two buffered channels, a worker's
\* jobChan being named by the worker's number; jobsClosed, poolClosed, quit
\* and jobChan tell that a channel is closed. at is where a goroutine is,
\* executed counts the Exec calls of each job, panicked is the panic that
\* ended the program, "" for none
NewQueue(u) ==
    [usage |-> u,
     running |-> FALSE,
     jobQueue |-> << >>, jobsClosed |-> FALSE,
     workerPool |-> << >>, poolClosed |-> FALSE,
     wg |-> 0,
     workers |-> [w \in 1..u.maxThread |-> NoWorker],
     dispatcher |-> [at |-> "none", job |-> 0, to |-> 0],
     clients |-> [c \in QClients |-> [i |-> 1, at |-> "call", job |-> 0, k |-> 0]],
     jobs |-> 0,
     pushed |-> {},
     executed |-> [j \in 1..(MaxJobs + 2) |-> 0],
     panicked |-> ""]

nonQueueVars == <<bmVars, seqVars, concVars, rangeVars, nl, krn, fw>>

\* the call goroutine c is in, "" when it has returned from its last one
CallOf(q, c) ==
    IF q.clients[c].i <= Len(q.usage.prog[c]) THEN q.usage.prog[c][q.clients[c].i] ELSE ""

\* goroutine c runs: the program has not panicked and c has been started
Runs(q, c) ==
    /\ q.panicked = ""
    /\ c = 1 \/ q.clients[1].i > q.usage.after

\* goroutine c is in the call name at the position where
In(q, c, name, where) == Runs(q, c) /\ CallOf(q, c) = name /\ q.clients[c].at = where

\* the queue after goroutine c has returned from its call
Return(q, c) == [q EXCEPT !.clients[c].i = @ + 1, !.clients[c].at = "call"]
\* the queue after goroutine c has moved to the position where
GoOn(q, c, where) == [q EXCEPT !.clients[c].at = where]
\* the queue after a panic
PanicWith(q, what) == [q EXCEPT !.panicked = what]

\* q.running.CompareAndSwap(false, true): the flag after it, and whether it
\* swapped
CompareAndSwap(running) == [running |-> TRUE, swapped |-> ~running]

\* Run, the test: it returns unless it has swapped the flag
RunSwap(c) ==
    /\ In(run, c, "Run", "call")
    /\ LET s == CompareAndSwap(run.running)
           q == [run EXCEPT !.running = s.running]
       IN run' = IF ~s.swapped THEN Return(q, c)
                 ELSE [GoOn(q, c, "workers") EXCEPT !.clients[c].k = 1]
    /\ UNCHANGED nonQueueVars

\* Run, one pass of the loop: newWorker, and Start, which sends the worker's
\* jobChan to the pool and starts the worker's goroutine
RunWorker(c) ==
    /\ In(run, c, "Run", "workers")
    /\ run.clients[c].k <= run.usage.maxThread
    /\ run.poolClosed \/ Len(run.workerPool) < run.usage.maxThread
    /\ LET w == run.clients[c].k
       IN run' = IF run.poolClosed THEN PanicWith(run, "send on closed channel")
                 ELSE [run EXCEPT !.workers[w] = [NoWorker EXCEPT !.made = TRUE,
                                                                  !.at = "select"],
                                  !.workerPool = Append(@, w),
                                  !.clients[c].k = @ + 1]
    /\ UNCHANGED nonQueueVars

\* Run, after the loop: go q.dispatch()
RunDispatch(c) ==
    /\ In(run, c, "Run", "workers")
    /\ run.clients[c].k > run.usage.maxThread
    /\ run' = Return([run EXCEPT !.dispatcher.at = "range"], c)
    /\ UNCHANGED nonQueueVars

\* Push, the test: it returns if it has swapped the flag. The job is the
\* next one
PushSwap(c) ==
    /\ In(run, c, "Push", "call")
    /\ LET s == CompareAndSwap(run.running)
           q == [run EXCEPT !.running = s.running, !.jobs = @ + 1,
                            !.clients[c].job = run.jobs + 1]
       IN run' = IF s.swapped THEN Return(q, c) ELSE GoOn(q, c, "add")
    /\ UNCHANGED nonQueueVars

\* Push: q.wg.Add(1)
PushAdd(c) ==
    /\ In(run, c, "Push", "add")
    /\ run' = GoOn([run EXCEPT !.wg = @ + 1], c, "send")
    /\ UNCHANGED nonQueueVars

\* Push: q.jobQueue <- job, which waits while the channel is full and panics
\* on a closed channel
PushSend(c) ==
    /\ In(run, c, "Push", "send")
    /\ run.jobsClosed \/ Len(run.jobQueue) < run.usage.maxCapacity
    /\ run' = IF run.jobsClosed THEN PanicWith(run, "send on closed channel")
              ELSE Return([run EXCEPT !.jobQueue = Append(@, run.clients[c].job),
                                      !.pushed = @ \cup {run.clients[c].job}], c)
    /\ UNCHANGED nonQueueVars

\* Terminate, the test: it returns if it has swapped the flag
TerminateSwap(c) ==
    /\ In(run, c, "Terminate", "call")
    /\ LET s == CompareAndSwap(run.running)
           q == [run EXCEPT !.running = s.running]
       IN run' = IF s.swapped THEN Return(q, c) ELSE GoOn(q, c, "wait")
    /\ UNCHANGED nonQueueVars

\* a Wait that returns whatever the counter is
WaitReturnsAtOnce(wg) == TRUE

\* sync.WaitGroup.Wait returns when the counter is zero
WaitReturns(wg) == wg = 0

\* Terminate: q.wg.Wait()
TerminateWait(c) ==
    /\ In(run, c, "Terminate", "wait")
    /\ WaitReturns(run.wg)
    /\ run' = GoOn(run, c, "close")
    /\ UNCHANGED nonQueueVars

\* Terminate: close(q.jobQueue)
TerminateCloseJobs(c) ==
    /\ In(run, c, "Terminate", "close")
    /\ run' = IF run.jobsClosed THEN PanicWith(run, "close of closed channel")
              ELSE [GoOn([run EXCEPT !.jobsClosed = TRUE], c, "stop")
                       EXCEPT !.clients[c].k = 1]
    /\ UNCHANGED nonQueueVars

\* Terminate, one pass of the loop: q.workers[i].Stop(), which closes the
\* worker's quit; q.workers[i] is nil until Run has made the worker
TerminateStop(c) ==
    /\ In(run, c, "Terminate", "stop")
    /\ run.clients[c].k <= run.usage.maxThread
    /\ LET w == run.clients[c].k
       IN run' = IF ~run.workers[w].made THEN PanicWith(run, "nil pointer dereference")
                 ELSE IF run.workers[w].quit THEN PanicWith(run, "close of closed channel")
                 ELSE [run EXCEPT !.workers[w].quit = TRUE, !.clients[c].k = @ + 1]
    /\ UNCHANGED nonQueueVars

\* Terminate, after the loop: close(q.workerPool)
TerminateClosePool(c) ==
    /\ In(run, c, "Terminate", "stop")
    /\ run.clients[c].k > run.usage.maxThread
    /\ run' = IF run.poolClosed THEN PanicWith(run, "close of closed channel")
              ELSE Return([run EXCEPT !.poolClosed = TRUE], c)
    /\ UNCHANGED nonQueueVars

\* dispatch: for j := range q.jobQueue
DispatchRange ==
    /\ run.panicked = ""
    /\ run.dispatcher.at = "range"
    /\ run.jobQueue # << >> \/ run.jobsClosed
    /\ run' = IF run.jobQueue # << >>
              THEN [run EXCEPT !.dispatcher = [at |-> "pool", job |-> Head(run.jobQueue),
                                               to |-> 0],
                               !.jobQueue = Tail(@)]
              ELSE [run EXCEPT !.dispatcher.at = "exit"]
    /\ UNCHANGED nonQueueVars

\* dispatch: jobChan := <-q.workerPool, the nil channel (0) once the pool is
\* closed and empty
DispatchPool ==
    /\ run.panicked = ""
    /\ run.dispatcher.at = "pool"
    /\ run.workerPool # << >> \/ run.poolClosed
    /\ run' = IF run.workerPool # << >>
              THEN [run EXCEPT !.dispatcher.at = "send",
                               !.dispatcher.to = Head(run.workerPool),
                               !.workerPool = Tail(@)]
              ELSE [run EXCEPT !.dispatcher.at = "send", !.dispatcher.to = 0]
    /\ UNCHANGED nonQueueVars

\* dispatch: jobChan <- j, taken by the worker in its select (case j :=
\* <-w.jobChan); a send on the nil channel waits for ever
DispatchSend ==
    /\ run.panicked = ""
    /\ run.dispatcher.at = "send"
    /\ run.dispatcher.to # 0
    /\ LET w == run.dispatcher.to
       IN /\ run.workers[w].jobChan \/ run.workers[w].at = "select"
          /\ run' = IF run.workers[w].jobChan THEN PanicWith(run, "send on closed channel")
                    ELSE [run EXCEPT !.workers[w].at = "exec",
                                     !.workers[w].job = run.dispatcher.job,
                                     !.dispatcher = [at |-> "range", job |-> 0, to |-> 0]]
    /\ UNCHANGED nonQueueVars

\* worker.Dispatch, the select: case <-w.quit
WorkerQuit(w) ==
    /\ run.panicked = ""
    /\ run.workers[w].at = "select"
    /\ run.workers[w].quit
    /\ run' = [run EXCEPT !.workers[w].at = "take"]
    /\ UNCHANGED nonQueueVars

\* worker.Dispatch: j.Exec()
WorkerExec(w) ==
    /\ run.panicked = ""
    /\ run.workers[w].at = "exec"
    /\ run' = [run EXCEPT !.workers[w].at = "put",
                          !.executed[run.workers[w].job] = @ + 1]
    /\ UNCHANGED nonQueueVars

\* worker.Dispatch: w.pool <- w.jobChan
WorkerPut(w) ==
    /\ run.panicked = ""
    /\ run.workers[w].at = "put"
    /\ run.poolClosed \/ Len(run.workerPool) < run.usage.maxThread
    /\ run' = IF run.poolClosed THEN PanicWith(run, "send on closed channel")
              ELSE [run EXCEPT !.workers[w].at = "done", !.workerPool = Append(@, w)]
    /\ UNCHANGED nonQueueVars

\* worker.Dispatch: w.wg.Done()
WorkerDone(w) ==
    /\ run.panicked = ""
    /\ run.workers[w].at = "done"
    /\ run' = IF run.wg = 0 THEN PanicWith(run, "negative WaitGroup counter")
              ELSE [run EXCEPT !.workers[w].at = "select", !.workers[w].job = 0,
                               !.wg = @ - 1]
    /\ UNCHANGED nonQueueVars

\* worker.Dispatch after quit: <-w.pool, which takes whichever jobChan is
\* first, or nothing from the closed and empty pool
WorkerTake(w) ==
    /\ run.panicked = ""
    /\ run.workers[w].at = "take"
    /\ run.workerPool # << >> \/ run.poolClosed
    /\ run' = [run EXCEPT !.workers[w].at = "close",
                          !.workerPool = IF @ # << >> THEN Tail(@) ELSE @]
    /\ UNCHANGED nonQueueVars

\* worker.Dispatch after quit: close(w.jobChan), return
WorkerClose(w) ==
    /\ run.panicked = ""
    /\ run.workers[w].at = "close"
    /\ run' = [run EXCEPT !.workers[w].at = "exit", !.workers[w].jobChan = TRUE]
    /\ UNCHANGED nonQueueVars

InitQueueWith(usages) ==
    /\ InitNoIpam
    /\ nl = NoNl
    /\ krn = NoKrn
    /\ fw = NoFw
    /\ \E u \in usages : run = NewQueue(u)

NextQueue ==
    \/ \E c \in QClients : RunSwap(c)
    \/ \E c \in QClients : RunWorker(c)
    \/ \E c \in QClients : RunDispatch(c)
    \/ \E c \in QClients : PushSwap(c)
    \/ \E c \in QClients : PushAdd(c)
    \/ \E c \in QClients : PushSend(c)
    \/ \E c \in QClients : TerminateSwap(c)
    \/ \E c \in QClients : TerminateWait(c)
    \/ \E c \in QClients : TerminateCloseJobs(c)
    \/ \E c \in QClients : TerminateStop(c)
    \/ \E c \in QClients : TerminateClosePool(c)
    \/ DispatchRange
    \/ DispatchPool
    \/ DispatchSend
    \/ \E w \in 1..MaxWorkers : w \in DOMAIN run.workers /\ WorkerQuit(w)
    \/ \E w \in 1..MaxWorkers : w \in DOMAIN run.workers /\ WorkerExec(w)
    \/ \E w \in 1..MaxWorkers : w \in DOMAIN run.workers /\ WorkerPut(w)
    \/ \E w \in 1..MaxWorkers : w \in DOMAIN run.workers /\ WorkerDone(w)
    \/ \E w \in 1..MaxWorkers : w \in DOMAIN run.workers /\ WorkerTake(w)
    \/ \E w \in 1..MaxWorkers : w \in DOMAIN run.workers /\ WorkerClose(w)

\* every usage, any scheduling
InitQueue == InitQueueWith(ProtocolUsages \cup UnstartedUsages \cup ConcurrentUsages)
SpecQueue == InitQueue /\ [][NextQueue]_vars

\* the documented protocol under a scheduler that lets a goroutine that can
\* take a step take one
InitQueueProtocol == InitQueueWith(ProtocolUsages)
SpecQueueProtocol == InitQueueProtocol /\ [][NextQueue]_vars /\ WF_vars(NextQueue)

\* ------------------------------------------------------- properties: the store
\* the positions of the set bits of a big.Int of the model
BitWidth == 8 * MaxDataLen + MaxOff + 1
SetBits(x) == {i \in 0..BitWidth : Bit(x, i) = 1}

\* C1: in every reachable state count is the number of set bits of allocated
C1_CountIsPopcount == count = Cardinality(SetBits(allocated))

\* C1 witness: bits in several words and bytes were restored, one more was
\* allocated and then released
C1_Witness ==
    /\ op = "Release"
    /\ pat.st = 2
    /\ allocated > 255
    /\ count >= 2
    /\ Bit(allocated, arg.offset) = 0

\* the set of values of a sequence
Values(q) == {q[i] : i \in 1..Len(q)}

\* C3: from the empty store of capacity N >= 1 the first N AllocateNext calls
\* succeed with pairwise distinct offsets of [0, N), a call fails only after N
\* successes, and then exactly the bits 0..N-1 are set and Free() is 0
C3_AllocateNextFillsStore ==
    (onlyNext /\ max >= 1) =>
        /\ Len(got) <= max
        /\ Values(got) \subseteq 0..(max - 1)
        /\ Cardinality(Values(got)) = Len(got)
        /\ SetBits(allocated) = Values(got)
        /\ op = "AllocateNext" => ret.err = ""
        /\ (op = "AllocateNext" /\ ~ret.ok) =>
              /\ Len(got) = max
              /\ SetBits(allocated) = 0..(max - 1)
              /\ Free(Store).ret.val = 0

\* C3 witness: the call after MaxCap successful calls failed
C3_Witness ==
    /\ onlyNext
    /\ max = MaxCap
    /\ Len(got) = max
    /\ op = "AllocateNext"
    /\ ~ret.ok

\* C4: Allocate(o) of a set bit returns false and changes nothing, Allocate(o)
\* of an unset bit sets exactly bit o and adds one to count; in
\* Allocate(o) Release(o) Allocate(o) Allocate(o), begun by a successful
\* Allocate, the third call succeeds and the fourth fails
C4_AllocateContract ==
    /\ [][ (op' = "Allocate" /\ arg'.offset >= 0) =>
             IF Bit(allocated, arg'.offset) = 1
             THEN ~ret'.ok /\ allocated' = allocated /\ count' = count
             ELSE /\ ret'.ok
                  /\ SetBits(allocated') = SetBits(allocated) \cup {arg'.offset}
                  /\ count' = count + 1 ]_vars
    /\ [](pat.st = 3 => ret.ok)
    /\ [](pat.st = 4 => ~ret.ok)

\* C4 witness: the fourth call of the sequence was made
C4_Witness == pat.st = 4 /\ op = "Allocate" /\ ~ret.ok /\ ret.err = ""

\* C5: Snapshot of any reachable store, restored with its tag on a new store of
\* the same capacity and tag, succeeds and gives a store with the same Has(o)
\* for every o in [0, N) and the same Free()
C5_SnapshotRestoreRoundTrip ==
    op = "RestoreFresh" =>
        /\ ret.ok
        /\ \A o \in 0..(max - 1) : Has(fresh, o).ret.ok = Has(Store, o).ret.ok
        /\ Free(fresh).ret.val = Free(Store).ret.val

\* C5 witness: a store with bits in two bytes went through the round trip
C5_Witness ==
    /\ op = "RestoreFresh"
    /\ Len(arg.data) = 2
    /\ max >= 2
    /\ \E o \in 0..(max - 1) : Has(Store, o).ret.ok

\* C6: Restore with a tag other than rangeSpec returns an error and leaves
\* allocated and count as they were, whatever the bytes
C6_RestoreMismatchUnchanged ==
    [][ (op' = "Restore" /\ arg'.tag # rangeSpec) =>
          /\ ~ret'.ok
          /\ ret'.err # ""
          /\ allocated' = allocated
          /\ count' = count
          /\ max' = max
          /\ rangeSpec' = rangeSpec ]_vars

\* C6 witness: a refused Restore whose bytes differ from the store's content
C6_Witness ==
    /\ op = "Restore"
    /\ arg.tag # rangeSpec
    /\ ~ret.ok
    /\ allocated > 0
    /\ SetBytes(arg.data) # allocated

\* C7: Release never fails; out of range (negative, or >= max) or on an unset
\* bit it changes nothing; on a set bit in range it clears exactly that bit and
\* takes one from count
C7_ReleaseContract ==
    [][ op' = "Release" =>
          /\ ret'.err = ""
          /\ IF arg'.offset < 0 \/ arg'.offset >= max
             THEN allocated' = allocated /\ count' = count
             ELSE IF Bit(allocated, arg'.offset) = 0
                  THEN allocated' = allocated /\ count' = count
                  ELSE /\ SetBits(allocated') = SetBits(allocated) \ {arg'.offset}
                       /\ count' = count - 1 ]_vars

\* ------------------------------------------------------- properties: goroutines
\* the method of call c run alone on store r
Sequential(c, r) ==
    CASE c.name = "Allocate" -> Allocate(r, c.offset)
      [] c.name = "AllocateNext" -> AllocateNext(r, c.rnd)
      [] c.name = "Release" -> Release(r, c.offset)
      [] c.name = "ForEach" -> ForEach(r)
      [] c.name = "Has" -> Has(r, c.offset)
      [] c.name = "Free" -> Free(r)
      [] c.name = "Snapshot" -> Snapshot(r)
      [] c.name = "Restore" -> Restore(r, c.tag, c.data)

\* every returned call did to the store, and returned, what the method run
\* alone does on the store as it was when the call took the lock; at most one
\* goroutine is inside a method; ForEach reported the set bits of that store
AtomicCalls ==
    /\ Cardinality({p \in Procs : pc[p] # "idle"}) <= 1
    /\ done.p # 0 =>
          LET s == Sequential(done.call, done.pre)
          IN /\ done.post = s.r
             /\ done.ret = s.ret
             /\ done.out = s.out
    /\ (done.p # 0 /\ done.call.name = "ForEach") =>
          /\ Values(done.out) = SetBits(done.pre.allocated)
          /\ \A i \in 1..(Len(done.out) - 1) : done.out[i] < done.out[i + 1]

\* C2 as stated: calls are atomic, and no offset is reported newly allocated
\* twice unless a Release of that offset took effect in between
C2_Original == AtomicCalls /\ ~dupRel

\* C2 amended: calls are atomic, and no offset is reported newly allocated
\* twice unless a Release of that offset, or a Restore whose data leaves its
\* bit unset, took effect in between
C2_AtomicUnderLock == AtomicCalls /\ ~dup

\* C2 witness: goroutine 2 was handed an offset that had been reported before
\* and was restored away, not released, in between
C2_Witness ==
    /\ dupRel
    /\ done.p = 2
    /\ done.call.name \in {"Allocate", "AllocateNext"}
    /\ done.ret.ok

\* ------------------------------------------------------- properties: the Range
\* the addresses base + o for o in [0, max)
Usable == base..(base + rmax - 1)

\* C8: offset o <-> address base + o is a bijection between [0, max) and the
\* addresses the Range accepts: an accepted address shares its offset with no
\* other address, every address accepted by Allocate or returned by
\* AllocateNext lies in [base, base + max), and base - 1 and base + max are
\* never allocated
C8_OffsetBijection ==
    /\ (op = "Range.Allocate" /\ ret.err = "") =>
          /\ arg.ip \in Usable
          /\ \A y \in IPArgs \ {arg.ip} :
                contains(RangeObj, y).ok =>
                    contains(RangeObj, y).offset # contains(RangeObj, arg.ip).offset
    /\ (op = "Range.AllocateNext" /\ ret.err = "") => out[1] \in Usable
    /\ ~RangeHas(RangeObj, base - 1).ret.ok
    /\ ~RangeHas(RangeObj, base + rmax).ret.ok

\* C9: Range.Allocate(ip) returns ErrNotInRange and changes nothing for every
\* ip outside [base, base + max), returns ErrAllocated and changes nothing if
\* ip is allocated, and otherwise marks exactly ip and returns nil
C9_RangeAllocateContract ==
    [][ op' = "Range.Allocate" =>
          IF arg'.ip \notin Usable
          THEN ret'.err = "ErrNotInRange" /\ allocated' = allocated /\ count' = count
          ELSE IF Bit(allocated, arg'.ip - base) = 1
               THEN ret'.err = "ErrAllocated" /\ allocated' = allocated /\ count' = count
               ELSE /\ ret'.err = ""
                    /\ ret'.ok
                    /\ SetBits(allocated') = SetBits(allocated) \cup {arg'.ip - base}
                    /\ count' = count + 1 ]_vars

\* C10: Range.AllocateNext returns ErrFull if and only if no address of
\* [base, base + max) is free; otherwise it returns base + o for an offset o
\* that was free and marks exactly that address
C10_RangeAllocateNextContract ==
    [][ op' = "Range.AllocateNext" =>
          LET free == {o \in 0..(rmax - 1) : Bit(allocated, o) = 0}
          IN IF free = {}
             THEN ret'.err = "ErrFull" /\ allocated' = allocated /\ count' = count
             ELSE /\ ret'.err = ""
                  /\ \E o \in free :
                        /\ out' = <<base + o>>
                        /\ SetBits(allocated') = SetBits(allocated) \cup {o}
                        /\ count' = count + 1 ]_vars

\* C11: Range.Restore(n, data) with a subnet whose address or mask differs from
\* the Range's own returns ErrMismatchedNetwork and leaves the Range as it was;
\* with the Range's own subnet it returns nil, allocated is the integer of
\* data and count the number of its set bits
C11_RangeRestoreContract ==
    [][ \A n \in RestoreNets, d \in RestoreData :
          (op' = "Range.Restore" /\ arg' = RestoreArg(n, d)) =>
              IF n.ip = net.ip /\ n.fam = net.fam /\ n.ones = net.ones
              THEN /\ ret'.ok
                   /\ ret'.err = ""
                   /\ allocated' = SetBytes(d)
                   /\ count' = Cardinality(SetBits(SetBytes(d)))
                   /\ UNCHANGED <<max, rangeSpec, rangeVars>>
              ELSE /\ ret'.err = "ErrMismatchedNetwork"
                   /\ UNCHANGED <<bmVars, rangeVars>> ]_vars

\* C11 witness: a Restore with the Range's address and another mask was refused
\* on a Range that holds an address, with bytes that would have changed it
C11_Witness ==
    /\ op = "Range.Restore"
    /\ ret.err = "ErrMismatchedNetwork"
    /\ arg.ip = net.ip
    /\ count > 0
    /\ SetBytes(arg.data) # allocated

\* the number of addresses of a subnet: 2^(host bits)
Addresses(n) == 2 ^ HostBits(n)

\* C12 as stated: RangeSize is 0 for the subnets of one or two addresses (/31,
\* /32, /127, /128) and 2^(host bits) for every other subnet, at most the
\* IPv6 limit for an IPv6 subnet
C12_Original ==
    RangeSize(net) =
        IF HostBits(net) <= 1 THEN 0
        ELSE IF net.fam = "v6" /\ HostBits(net) >= V6CapBits THEN 2 ^ V6CapBits
        ELSE Addresses(net)

\* C12 amended: RangeSize is 0 for the subnets whose host bits are all or all
\* but one of the address bits (/0 and /1 of either family); for every other
\* subnet it is 2^(host bits), so 2 and 1 for the subnets of two and one
\* addresses, at most the IPv6 limit for an IPv6 subnet
C12_RangeSize ==
    RangeSize(net) =
        IF HostBits(net) >= AddrBits(net.fam) - 1 THEN 0
        ELSE IF net.fam = "v6" /\ Addresses(net) > 2 ^ V6CapBits THEN 2 ^ V6CapBits
        ELSE Addresses(net)

\* C12 witness: a Range over an IPv6 subnet larger than the limit, and it is
\* in use
C12_Witness ==
    /\ net.fam = "v6"
    /\ Addresses(net) > 2 ^ V6CapBits
    /\ HostBits(net) < V6Bits - 1
    /\ rmax = 2 ^ V6CapBits - 2
    /\ op = "Range.AllocateNext"
    /\ ret.ok

\* what NewCIDRRange yields, given which subnets count as larger than two
\* addresses
NewRangeShape(large) ==
    /\ IF large
       THEN rmax = RangeSize(net) - 2 /\ base = net.ip + 1
       ELSE rmax = RangeSize(net) /\ base = net.ip
    /\ max = rmax
    /\ op = "New" => (count = 0 /\ allocated = 0 /\ Free(Store).ret.val = rmax)

LastAttempt(n) == n.hist[Len(n.hist)]
\* the step is an invocation of the netlink function
Invoked == Len(nl'.hist) = Len(nl.hist) + 1

\* C17: a wrapped call invokes the netlink function at least once and at most
\* maxAttempts times; it invokes it again only if the attempt just before
\* reported ErrDumpInterrupted; an attempt that reports success or another
\* error ends the call at once, and the call returns that attempt's result
\* and error unchanged
C17_RetryOnlyAfterInterrupt ==
    /\ [](Len(nl.hist) <= maxAttempts)
    /\ [](nl.pc = "done" => Len(nl.hist) >= 1)
    /\ [][ (Invoked /\ Len(nl.hist) >= 1) =>
             IsDumpInterrupted(LastAttempt(nl).err) ]_vars
    /\ [][ (Invoked /\ ~IsDumpInterrupted(LastAttempt(nl').err)) =>
             /\ nl'.pc = "done"
             /\ nl'.ret = [val |-> LastAttempt(nl').val, err |-> LastAttempt(nl').err] ]_vars
    /\ [][ nl.pc = "done" => ~Invoked ]_vars

\* C17 witness: two interrupted attempts, then another error, which came back
C17_Witness ==
    /\ nl.pc = "done"
    /\ Len(nl.hist) = 3
    /\ nl.hist[1].err = "ErrDumpInterrupted"
    /\ nl.hist[3].err = "other"
    /\ nl.ret.err = "other"

\* C18: a wrapped call never returns an error that is ErrDumpInterrupted; when
\* every one of its maxAttempts attempts was interrupted it returns the result
\* of the last attempt and a nil error
C18_InterruptDiscarded ==
    nl.pc = "done" =>
        /\ ~IsDumpInterrupted(nl.ret.err)
        /\ (Len(nl.hist) = maxAttempts /\ IsDumpInterrupted(LastAttempt(nl).err)) =>
              nl.ret = [val |-> LastAttempt(nl).val, err |-> "nil"]

\* C18 witness: maxAttempts interrupted attempts, the last with a partial dump
C18_Witness ==
    /\ nl.pc = "done"
    /\ Len(nl.hist) = maxAttempts
    /\ \A i \in 1..maxAttempts : IsDumpInterrupted(nl.hist[i].err)
    /\ nl.hist[maxAttempts - 1].val = 0
    /\ nl.hist[maxAttempts].val = 1
    /\ nl.ret.val = 1
    /\ nl.logged

\* ------------------------------------------------------- properties: masquerade
\* the three iptables rules of identity a for ipn are in place
IptInstalledFor(ipt, a, ipn) ==
    LET nat == ipt[Proto(ipn)]
        chain == FormatChainName(a.network, a.id)
        comment == FormatComment(a.network, a.id)
    IN /\ chain \in DOMAIN nat
       /\ Member(nat[chain], IptRule(FALSE, "-d", IptAddr(NetString(ipn)), "ACCEPT", comment))
       /\ Member(nat[chain], IptRule(TRUE, "-d", multicastNet(Proto(ipn)), "MASQUERADE", comment))
       /\ Member(nat["POSTROUTING"],
                 IptRule(FALSE, "-s", IptAddr(NetString(ipn)), chain, comment))

\* neither the chain of identity a nor its jump rule for ipn is left
IptRemovedFor(ipt, a, ipn) ==
    LET nat == ipt[Proto(ipn)]
        chain == FormatChainName(a.network, a.id)
    IN /\ chain \notin DOMAIN nat
       /\ ~Member(nat["POSTROUTING"],
                  IptRule(FALSE, "-s", IptAddr(NetString(ipn)), chain,
                          FormatComment(a.network, a.id)))

\* an nftables rule without its handle
NftContent(r) == [r EXCEPT !.h = 0]
\* how often a rule of this content is in the chain
NftCount(q, c) == Cardinality({i \in 1..Len(q) : NftContent(q[i]) = c})
\* the nftables rule of identity a for ipn is in place
NftInstalledFor(nft, a, ipn) ==
    NftCount(nft.masq, MasqRule(ipn, commentForInstance(a.network, a.ifName, a.id), 0)) >= 1

\* the rules of identity a for the list ipNs are installed in backend k
Installed(f, k, a, ipNs) ==
    /\ ipNs # << >>
    /\ \A i \in 1..Len(ipNs) :
          IF k = "iptables" THEN IptInstalledFor(f.ipt, a, ipNs[i])
          ELSE NftInstalledFor(f.nft, a, ipNs[i])

\* no rule of identity a for the list ipNs is left in backend k
Removed(f, k, a, ipNs) ==
    IF k = "iptables" THEN \A i \in 1..Len(ipNs) : IptRemovedFor(f.ipt, a, ipNs[i])
    ELSE \A i \in 1..Len(f.nft.masq) :
            f.nft.masq[i].comment # commentForInstance(a.network, a.ifName, a.id)

\* the same rules in both firewalls: iptables chains rule for rule, nftables
\* chains up to the handles and the order of the rules
SameRules(f, g) ==
    /\ f.ipt = g.ipt
    /\ f.nft.table = g.nft.table
    /\ f.nft.post = g.nft.post
    /\ \A c \in {NftContent(f.nft.masq[i]) : i \in 1..Len(f.nft.masq)}
             \cup {NftContent(g.nft.masq[i]) : i \in 1..Len(g.nft.masq)} :
          NftCount(f.nft.masq, c) = NftCount(g.nft.masq, c)

\* the step is the call name(a, ipNs) on backend k
MasqStep(name, k, a, ipNs) ==
    /\ fw'.n = fw.n + 1
    /\ fw'.last.op = name
    /\ fw'.last.backend = k
    /\ fw'.last.ident = a
    /\ fw'.last.ipNs = ipNs

\* C19: a setup that follows a successful setup of the same backend, CIDR
\* list and identity succeeds and leaves the rules as the first left them: the
\* identity has one rule per CIDR in nftables, and no iptables chain holds a
\* rule twice
C19_SetupTwiceIsSetupOnce ==
    [][ \A k \in Backends, a \in Identities, ipNs \in MasqLists :
          (MasqStep("setup", k, a, ipNs)
             /\ fw.last = [op |-> "setup", backend |-> k, ident |-> a, ipNs |-> ipNs,
                           err |-> "nil"]) =>
              /\ fw'.last.err = "nil"
              /\ SameRules(fw', fw)
              /\ Installed(fw', k, a, ipNs)
              /\ Len(findRules(fw'.nft, hashForInstance(a.network, a.ifName, a.id)))
                    = Len(fw'.owned["nftables"][a])
              /\ \A p \in {"v4", "v6"} : \A c \in DOMAIN fw'.ipt[p] :
                    \A i, j \in 1..Len(fw'.ipt[p][c]) :
                        fw'.ipt[p][c][i] = fw'.ipt[p][c][j] => i = j ]_vars

\* C19 witness: the nftables setup of an identity ran twice with two CIDRs
\* while the rule of another identity for the same address stayed in between
C19_Witness ==
    /\ fw.n = 3
    /\ fw.last.op = "setup"
    /\ fw.last.backend = "nftables"
    /\ Len(fw.last.ipNs) = 2
    /\ Len(fw.nft.masq) = 3
    /\ fw.nft.masq[1].comment # fw.nft.masq[2].comment
    /\ fw.nft.masq[2].h = 4

\* C20: a teardown of identity a with the CIDR list it was set up with leaves
\* none of a's rules, and every other identity whose rules were installed
\* before the teardown has them installed after it
C20_TeardownOnlyOwnRules ==
    [][ \A k \in Backends, a \in Identities :
          MasqStep("teardown", k, a, fw.owned[k][a]) =>
              /\ Removed(fw', k, a, fw.owned[k][a])
              /\ \A b \in Identities \ {a} :
                    Installed(fw, k, b, fw.owned[k][b]) =>
                        Installed(fw', k, b, fw.owned[k][b]) ]_vars

\* ------------------------------------------------------- properties: SetupBridge
\* the gateway address of every pod subnet of c, as the kernel lists it
GatewayAddrs(c) == {NetString(calcGateways(c.PodCIDR[i]).gw) : i \in 1..Len(c.PodCIDR)}
\* how often address a is on the link called name
AddrCount(k, name, a) ==
    LET i == LinkIndex(k.links, name)
    IN IF i = 0 THEN 0
       ELSE Cardinality({j \in 1..Len(k.links[i].addrs) : k.links[i].addrs[j] = a})

\* C14: a SetupBridge call that repeats a successful call with the same
\* layer-3 configuration, and in which no kernel call fails for a reason of
\* its own, succeeds; then one link has the bridge's name, it is a bridge,
\* and every gateway address is on it exactly once
C14_SetupBridgeTwice ==
    (run.pc = "done" /\ isLayer3(run.conf) /\ run.rets = <<"ok">> /\ ~run.injected) =>
        /\ run.ret = "ok"
        /\ Cardinality({i \in 1..Len(krn.links) : krn.links[i].name = run.conf.BrName}) = 1
        /\ krn.links[LinkIndex(krn.links, run.conf.BrName)].type = "bridge"
        /\ \A a \in GatewayAddrs(run.conf) : AddrCount(krn, run.conf.BrName, a) = 1

\* the configuration errors: IPAM with DisableContainerInterface, hairpin
\* with promiscuous mode, a VLAN id outside [0, 4094], trunk bounds that
\* collectVlanTrunk refuses, a masquerade backend that is none of the two
ConfigError(c) ==
    \/ isLayer3(c) /\ c.DisableContainerInterface
    \/ c.HairpinMode /\ c.PromiscMode
    \/ c.Vlan < 0 \/ c.Vlan > 4094
    \/ collectVlanTrunk(c.VlanTrunk).err # "nil"
    \/ c.IPMasqBackend \notin {Nil, Ptr("iptables"), Ptr("nftables")}

\* C15: a SetupBridge call with a configuration error returns an error and
\* has run no step but the checks: the kernel and the firewall are as the
\* call found them
C15_ConfigErrorBeforeMutation ==
    (run.pc # "idle" /\ ConfigError(run.orig)) =>
        /\ run.pc = "done"
        /\ run.ret = "err"
        /\ run.trace = <<[step |-> "validate", ok |-> FALSE]>>
        /\ krn = run.before.krn
        /\ fw = run.before.fw

\* the steps of a call with configuration c, in the order of the code
StepOrder(c) ==
    <<"validate">>
    \o (IF isLayer3(c) THEN <<"forward4", "forward6">> ELSE << >>)
    \o <<"device">>
    \o (IF isLayer3(c)
        THEN <<"list">> \o [i \in 1..Len(c.PodCIDR) |-> "gateway"]
             \o (IF c.IPMasq THEN <<"masquerade">> ELSE << >>)
        ELSE << >>)

\* C16: the steps a call has run are the first steps of validate, forwarding
\* (layer 3), device, gateway addresses (layer 3), masquerade (layer 3 with
\* IPMasq), each once and in this order; every step but the last one run
\* succeeded; a failed step is the last one, and the call has returned an
\* error; a call returns the bridge only after every step ran and succeeded
C16_StepsInOrder ==
    run.pc # "idle" =>
        LET t == run.trace
            order == StepOrder(run.conf)
        IN /\ Len(t) >= 1 /\ Len(t) <= Len(order)
           /\ \A i \in 1..Len(t) : t[i].step = order[i]
           /\ \A i \in 1..(Len(t) - 1) : t[i].ok
           /\ ~t[Len(t)].ok => (run.pc = "done" /\ run.ret = "err")
           /\ run.pc = "done" =>
                 IF run.ret = "ok" THEN Len(t) = Len(order) /\ t[Len(t)].ok
                 ELSE run.ret = "err" /\ ~t[Len(t)].ok
           /\ run.pc # "done" => run.ret = ""

\* C16 witness: the device step of a layer-3 call failed after forwarding was
\* enabled, and the call returned
C16_Witness ==
    /\ run.pc = "done"
    /\ run.ret = "err"
    /\ isLayer3(run.conf)
    /\ Len(run.trace) = 4
    /\ run.trace[4] = [step |-> "device", ok |-> FALSE]
    /\ krn.fwd4 = "1"
    /\ krn.fwd6 = "1"

\* ------------------------------------------------------- properties: two goroutines
\* C21: when the nftables setup for identity a and the nftables teardown for
\* another identity b on the same addresses have both returned, whatever the
\* order of their listings and transactions was, both returned nil, a's rule
\* for every address of the list is in the chain and no rule of b is
C21_ConcurrentSetupAndTeardown ==
    (run.pc = "race" /\ run.setup.pc = "done" /\ run.teardown.pc = "done") =>
        /\ run.setup.err = "nil"
        /\ run.teardown.err = "nil"
        /\ Installed(fw, "nftables", run.setup.ident, run.ipNs)
        /\ Removed(fw, "nftables", run.teardown.ident, run.ipNs)
        /\ Len(findRules(fw.nft, hashForInstance(run.setup.ident.network,
                                                 run.setup.ident.ifName,
                                                 run.setup.ident.id))) = Len(run.ipNs)

\* C21 witness: both calls listed rules of their own before either ran its
\* transaction, the setup ran first, and both have returned
C21_Witness ==
    /\ run.pc = "race"
    /\ run.order = <<"setup.find", "teardown.find", "setup.run", "teardown.run">>
    /\ Len(run.setup.rules) = 2
    /\ Len(run.teardown.rules) = 2
    /\ Len(fw.nft.masq) = 2

\* ------------------------------------------------------- properties: the host's backends
\* the step is a call name on the host's firewall
HostStep(name) ==
    /\ fw'.n = fw.n + 1
    /\ fw'.last.op = name

\* C22: a TeardownIPMasqForNetworks call runs the iptables teardown and then
\* the nftables teardown whatever the first returned: on a host without a
\* backend that teardown returns an error, with the backend it leaves none of
\* the identity's rules unless it returns an error; the returned error names
\* a backend exactly when its teardown returned an error and the host
\* supports it, and is nil exactly when it names none
C22_TeardownBothBackends ==
    [][ HostStep("teardown") =>
          LET a == fw'.last.ident
              raw == fw'.last.raw
          IN /\ \A k \in Backends :
                   /\ ~krn.host[k] => (raw[k] # "nil" /\ fw'[IF k = "iptables" THEN "ipt" ELSE "nft"]
                                                         = fw[IF k = "iptables" THEN "ipt" ELSE "nft"])
                   /\ (krn.host[k] /\ raw[k] = "nil") => Removed(fw', k, a, fw'.last.ipNs)
                   /\ (\E i \in 1..Len(fw'.last.errs) : fw'.last.errs[i] = k)
                         <=> (raw[k] # "nil" /\ krn.host[k])
             /\ (fw'.last.err = "nil") <=> (fw'.last.errs = << >>) ]_vars

\* C22 witness: on a host with nftables alone an identity's nftables rules
\* were torn down by a call whose iptables teardown failed; the call
\* returned nil
C22_Witness ==
    /\ krn.host = [iptables |-> FALSE, nftables |-> TRUE]
    /\ fw.n = 2
    /\ fw.last.op = "teardown"
    /\ fw.last.raw.iptables # "nil"
    /\ fw.last.raw.nftables = "nil"
    /\ fw.last.err = "nil"
    /\ fw.nft.table
    /\ fw.nft.masq = << >>

\* the backend SetupIPMasqForNetworks is to use for argument b on host h, ""
\* when the string names none
BackendFor(b, h) ==
    IF b = Nil THEN (IF h.nftables /\ ~h.iptables THEN "nftables" ELSE "iptables")
    ELSE IF b[1] \in Backends THEN b[1]
    ELSE ""

\* C23: a SetupIPMasqForNetworks call with no backend uses nftables when the
\* host supports nftables and not iptables, and iptables otherwise; with
\* "iptables" or "nftables" it uses that backend; the other backend's rules
\* stay as they are, and the rules are installed in the backend used when the
\* call returns nil; with any other string it returns an error and changes
\* no rule
C23_BackendSelection ==
    [][ HostStep("setup") =>
          LET k == BackendFor(fw'.last.backend, krn.host)
          IN /\ fw'.last.used = k
             /\ k # "iptables" => fw'.ipt = fw.ipt
             /\ k # "nftables" => fw'.nft = fw.nft
             /\ k = "" => fw'.last.err # "nil"
             /\ (k # "" /\ fw'.last.err = "nil") =>
                   Installed(fw', k, fw'.last.ident, fw'.last.ipNs) ]_vars

\* C23 witness: a call with no backend installed nftables rules on a host
\* that supports nftables alone
C23_Witness ==
    /\ krn.host = [iptables |-> FALSE, nftables |-> TRUE]
    /\ fw.last.op = "setup"
    /\ fw.last.backend = Nil
    /\ fw.last.used = "nftables"
    /\ fw.last.err = "nil"
    /\ Len(fw.nft.masq) = 2
    /\ fw.ipt = InitFw.ipt

\* ------------------------------------------------------- properties: VLAN trunk
\* v is a VLAN id a trunk may carry
TrunkIdOk(v) == v >= 1 /\ v <= 4094
\* what the claim calls an error in a trunk entry
TrunkDefect(t) ==
    \/ t.MinID # Nil /\ ~TrunkIdOk(t.MinID[1])
    \/ t.MaxID # Nil /\ ~TrunkIdOk(t.MaxID[1])
    \/ t.ID # Nil /\ ~TrunkIdOk(t.ID[1])
    \/ t.MinID # Nil /\ t.MaxID # Nil /\ t.MinID[1] > t.MaxID[1]
    \/ (t.MinID = Nil) # (t.MaxID = Nil)
\* the ids of an entry: its inclusive range and its single id
TrunkIdsOf(t) ==
    (IF t.MinID # Nil /\ t.MaxID # Nil THEN t.MinID[1]..t.MaxID[1] ELSE {})
    \cup (IF t.ID # Nil THEN {t.ID[1]} ELSE {})

\* C24: collectVlanTrunk returns an error when an entry has minID, maxID or
\* id outside [1, 4094], minID above maxID, or one of minID and maxID alone;
\* otherwise it returns no error and the ids of all ranges and single ids,
\* each once, in ascending order (nothing for nil and for a list without ids)
C24_CollectVlanTrunk ==
    run.pc = "collected" =>
        LET items == IF run.vlanTrunk = Nil THEN << >> ELSE run.vlanTrunk[1]
            vlans == run.ret.vlans
        IN IF \E i \in 1..Len(items) : TrunkDefect(items[i])
           THEN run.ret.err # "nil"
           ELSE /\ run.ret.err = "nil"
                /\ \A i \in 1..(Len(vlans) - 1) : vlans[i] < vlans[i + 1]
                /\ {vlans[i] : i \in 1..Len(vlans)}
                      = UNION {TrunkIdsOf(items[i]) : i \in 1..Len(items)}

\* C24 witness: {minID: 10, maxID: 12} gave 10, 11, 12
C24_Witness ==
    /\ run.pc = "collected"
    /\ run.vlanTrunk = Ptr(<<VlanItem(Ptr(10), Ptr(12), Nil)>>)
    /\ run.ret = [vlans |-> <<10, 11, 12>>, err |-> "nil"]

\* ------------------------------------------------------- properties: vlan
\* the step is the call name of the vlan package
VlanStep(name) ==
    /\ run'.n = run.n + 1
    /\ run'.op = name

\* the configuration errors of CreateVlan on kernel k: no master name, a VLAN
\* id outside [0, 4094], no link of the master's name, an MTU outside
\* [0, master MTU]
VlanConfError(k, c) ==
    \/ c.Master = ""
    \/ c.VlanID < 0 \/ c.VlanID > 4094
    \/ LinkIndex(k.links, c.Master) = 0
    \/ c.MTU < 0 \/ c.MTU > k.links[LinkIndex(k.links, c.Master)].mtu

\* the call added one VLAN link called ifName with this MTU on the master of
\* c, and changed no other link
AddedVlan(k, kAfter, ifName, c, mtu) ==
    /\ Len(kAfter.links) = Len(k.links) + 1
    /\ SubSeq(kAfter.links, 1, Len(k.links)) = k.links
    /\ LET v == kAfter.links[Len(kAfter.links)]
       IN /\ v.name = ifName
          /\ v.type = "vlan"
          /\ v.parent = k.links[LinkIndex(k.links, c.Master)].index
          /\ v.vlanId = c.VlanID
          /\ v.mtu = mtu

C26_DeleteVlan ==
    [][ (VlanStep("DeleteVlan") /\ run'.fail = "") =>
          IF LinkIndex(krn.links, run'.ifName) # 0
          THEN run'.err = "nil" /\ LinkIndex(krn'.links, run'.ifName) = 0
          ELSE run'.err = "nil" /\ krn' = krn ]_vars

\* ------------------------------------------------------- properties: the full store
\* C27: an AllocateNext call on a store with count >= max, whatever max >= 0
\* is, returns false without a panic and leaves max, count and allocated as
\* they were
C27_AllocateNextWhenFull ==
    [][ (op' = "AllocateNext" /\ count >= max) =>
          /\ ~ret'.ok
          /\ ret'.err = ""
          /\ count' = count
          /\ allocated' = allocated
          /\ max' = max ]_vars

\* ------------------------------------------------------- properties: SetupBridge and masquerade
\* the masquerade rules of the call's configuration are installed for the
\* gateway of every pod CIDR, in the backend the configuration selects
GatewayRulesInstalled ==
    LET c == run.conf
        k == BackendFor(c.IPMasqBackend, krn.host)
        a == [network |-> c.Name, ifName |-> "", id |-> ""]
    IN \A i \in 1..Len(c.PodCIDR) :
          LET gw == calcGateways(c.PodCIDR[i]).gw
          IN IF k = "iptables" THEN IptInstalledFor(fw.ipt, a, gw)
             ELSE NftInstalledFor(fw.nft, a, gw)

\* C28: when a SetupBridge call with IPMasq set has returned the bridge, be
\* it the first call or a repeated one that found every gateway address on
\* the bridge, the masquerade rules for the gateway of every pod CIDR are
\* installed
C28_MasqueradeAfterEverySetup ==
    (run.pc = "done" /\ run.ret = "ok" /\ isLayer3(run.conf) /\ run.conf.IPMasq) =>
        GatewayRulesInstalled

\* ------------------------------------------------------- properties: the Range's addresses
\* the allocated addresses: base + o for a set offset o, as far as Has says so
AllocatedIPs ==
    {x \in {addIPOffset(base, o) : o \in SetBits(allocated)} : RangeHas(RangeObj, x).ret.ok}

\* C29: Range.ForEach calls fn once for every allocated address, in
\* ascending order, and with no other value, whatever the size of the subnet
C29_RangeForEach ==
    op = "Range.ForEach" =>
        /\ \A i \in 1..(Len(out) - 1) : out[i] < out[i + 1]
        /\ {out[i] : i \in 1..Len(out)} = AllocatedIPs

\* C30: no offset outside [0, max) is marked allocated; Used() is the number
\* of allocated addresses of [base, base + max), and Free() lies in [0, max]
C30_OffsetsWithinMax ==
    /\ \A o \in SetBits(allocated) : o < rmax
    /\ RangeUsed(RangeObj).ret.val = Cardinality(AllocatedIPs)
    /\ RangeFree(RangeObj).ret.val >= 0
    /\ RangeFree(RangeObj).ret.val <= rmax
    /\ op = "Range.Used" => ret.val = Cardinality(AllocatedIPs)
    /\ op = "Range.Free" => (ret.val >= 0 /\ ret.val <= rmax)

\* ------------------------------------------------------- properties: forwarding
\* C31: a forwarding function whose file already reads "1" writes nothing
\* and returns nil, and after a call that returned nil the file reads "1"
C31_WriteOnlyWhenNotSet ==
    run.fn # "" =>
        /\ run.before = "1" => (~run.wrote /\ run.err = "nil")
        /\ run.err = "nil" => krn[run.file] = "1"

\* ------------------------------------------------------- properties: the bridge device
\* the link of the bridge's name in a kernel, when there is one
BridgeLink(k, c) == k.links[LinkIndex(k.links, c.BrName)]

\* C32: once SetupBridge has returned the bridge, the bridge's accept_ra is
\* "0", whatever it was before
C32_AcceptRaDisabled ==
    (run.pc = "done" /\ run.ret = "ok") => BridgeLink(krn, run.conf).acceptRa = "0"

\* the call in progress found a link of the bridge's name that is no bridge
FoundOtherLink ==
    /\ run.conf # NoConf
    /\ LinkIndex(run.before.krn.links, run.conf.BrName) # 0
    /\ BridgeLink(run.before.krn, run.conf).type # "bridge"

RoundDone ==
    /\ fw.last.op = "teardown"
    /\ fw.prev.op = "setup"
    /\ fw.prev.fresh
    /\ fw.prev.err = "nil"
    /\ fw.prev.ident = fw.last.ident
    /\ fw.prev.ipNs = fw.last.ipNs

\* C34: an iptables teardown right after the setup of the same CIDR list and
\* identity returns nil and leaves neither the chain nor a jump to it
C34_SetupThenTeardown ==
    RoundDone => (fw.last.err = "nil" /\ ~ChainLeft(fw.ipt, ChainOf(fw.last.ident)))

\* C35: an iptables teardown for an identity that has neither a chain nor a
\* jump rule installed returns nil and leaves the nat tables as they were
C35_TeardownOfNothing ==
    [][(fw'.last.op = "teardown" /\ fw'.last.fresh) =>
           (fw'.last.err = "nil" /\ fw'.ipt = fw.ipt)]_vars

\* ------------------------------------------------------- properties: DelLinkByNameAddr
\* the link the call was asked to delete, as the call found it
DelHad == LinkIndex(run.before.links, run.ifName) # 0
DelLinkBefore == run.before.links[LinkIndex(run.before.links, run.ifName)]
\* the kernel call at position i of the call's kernel calls
DelCallAt(name) ==
    IF \E i \in 1..Len(run.calls) : run.calls[i] = name
    THEN CHOOSE i \in 1..Len(run.calls) : run.calls[i] = name
    ELSE 0

\* what C36 says of every call but the addresses returned
DelFrame ==
    /\ (~DelHad /\ run.fail # "LinkByName") => run.err = "ErrLinkNotFound"
    /\ (run.fail = "LinkByName" \/ (DelHad /\ run.got = "other")) =>
           (run.err # "nil" /\ krn = run.before)
    /\ run.err # "nil" => (krn = run.before /\ run.out = << >>)
    /\ run.err = "nil" =>
           /\ DelHad
           /\ LinkIndex(krn.links, run.ifName) = 0
           /\ DelCallAt("AddrList") # 0
           /\ DelCallAt("AddrList") < DelCallAt("LinkDel")

\* C36 as stated: the addresses returned are exactly the global-unicast
\* addresses the link held
C36_Original ==
    run.ifName # "" =>
        /\ DelFrame
        /\ run.err = "nil" => run.out = SelectSeq(DelLinkBefore.addrs, IsGlobalUnicast)

\* C36: DelLinkByNameAddr lists the addresses before it deletes the link and
\* returns the global-unicast ones among those the listing returned, which
\* are all the link held unless the dump was interrupted on every attempt;
\* a missing link gives ErrLinkNotFound, and a failed lookup or listing
\* leaves the link in place
C36_DelLinkByNameAddr ==
    run.ifName # "" =>
        /\ DelFrame
        /\ (run.err = "nil" /\ ~IsDumpInterrupted(run.got)) =>
               run.out = SelectSeq(DelLinkBefore.addrs, IsGlobalUnicast)
        /\ (run.err = "nil" /\ IsDumpInterrupted(run.got)) =>
               run.out = SelectSeq(DelLinkBefore.addrs,
                                   LAMBDA a : IsGlobalUnicast(a) /\ a \in run.seen)

\* a link with global-unicast and other addresses was deleted and its
\* global-unicast addresses returned
C36_Witness ==
    /\ run.err = "nil"
    /\ ~IsDumpInterrupted(run.got)
    /\ Len(run.out) = 2
    /\ Len(DelLinkBefore.addrs) = 4
    /\ LinkIndex(krn.links, run.ifName) = 0

\* ------------------------------------------------------- properties: the queue
\* goroutine c has returned from all its calls
Returned(q, c) == q.clients[c].i > Len(q.usage.prog[c])
\* goroutine 1 has returned from Terminate, the last of its calls
Terminated(q) == q.panicked = "" /\ Returned(q, 1)

\* no panic, no job executed twice, and once Terminate has returned every
\* job pushed has been executed
ProtocolSafe ==
    /\ run.panicked = ""
    /\ \A j \in DOMAIN run.executed : run.executed[j] <= 1
    /\ Terminated(run) =>
          /\ run.pushed = 1..(Len(run.usage.prog[1]) - 2)
          /\ \A j \in run.pushed : run.executed[j] = 1

\* C37: under the protocol (Run, pushes from one goroutine, Terminate) every
\* job pushed is executed exactly once, Terminate returns only after all of
\* them have been executed, and Terminate does return, for every capacity
\* and every number of workers from 1 on
C37_ProtocolCompletes == []ProtocolSafe /\ <>Terminated(run)

\* a queue of capacity 1 with fewer workers than jobs has executed every job
\* and Terminate has returned
C37_Witness ==
    /\ run.usage.kind = "protocol"
    /\ Terminated(run)
    /\ run.usage.maxCapacity = 1
    /\ run.usage.maxThread < MaxJobs
    /\ run.pushed = 1..MaxJobs
    /\ \A j \in run.pushed : run.executed[j] = 1

\* the goroutine that takes the step from q to r and the call it is in
StepOf(q, r) == {c \in QClients : q.clients[c] # r.clients[c]}

\* C38: a Push or a Terminate on a queue that Run has not started changes
\* nothing of the queue (only Run sets the running flag), so that a later Run
\* starts the workers and the dispatcher and a job pushed after it is executed
C38_NoOpBeforeRun ==
    /\ [][run.running' # run.running =>
             \A c \in StepOf(run, run') : CallOf(run, c) = "Run"]_vars
    /\ [](run.usage.kind = "unstarted" =>
             /\ run.clients[1].i > 2 =>
                   (run.dispatcher.at # "none" /\ \A w \in DOMAIN run.workers : run.workers[w].made)
             /\ Returned(run, 1) => \A j \in run.pushed : run.executed[j] = 1)

\* C39: with Push calls concurrent to the Terminate of a running queue no job
\* is sent on the closed job channel, and once Terminate has returned every
\* job that was enqueued has been executed
C39_NoSendAfterClose ==
    run.usage.kind = "concurrent" =>
        /\ run.panicked = ""
        /\ Returned(run, 1) => \A j \in run.pushed : run.executed[j] = 1

====
